---- MODULE Spec2Model ----
(***************************************************************************)
(* A model of the vortex client runtime: the signal/effect graph           *)
(* (src/signals.ts), the page store and its structural equality            *)
(* (page.ts, helpers.ts), and the navigation extension's reconciliation    *)
(* and history writes (extensions/inertia).                                *)
(***************************************************************************)
EXTENDS Integers, Sequences, FiniteSets, TLC

(***************************************************************************)
(* Bounds                                                                  *)
(***************************************************************************)
MaxEffects == 2
MaxOps == 3
MaxNav == 2

(***************************************************************************)
(* JavaScript values.  Every value is a record of one shape: t is the      *)
(* type tag, p the payload of a primitive (as text), s the elements of an  *)
(* array, f the own properties of a plain object.                          *)
(***************************************************************************)
Undefined == [t |-> "undefined", p |-> "", s |-> <<>>, f |-> <<>>]
JNull == [t |-> "null", p |-> "", s |-> <<>>, f |-> <<>>]
Num(x) == [t |-> "number", p |-> x, s |-> <<>>, f |-> <<>>]
Str(x) == [t |-> "string", p |-> x, s |-> <<>>, f |-> <<>>]
Bool(x) == [t |-> "boolean", p |-> x, s |-> <<>>, f |-> <<>>]
NaN == Num("NaN")
Arr(items) == [t |-> "array", p |-> "", s |-> items, f |-> <<>>]
Obj(fields) == [t |-> "object", p |-> "", s |-> <<>>, f |-> fields]

Range(seq) == {seq[i] : i \in DOMAIN seq}

\* typeof x === 'object' && x !== null
IsObjectLike(v) == v.t \in {"array", "object"}

\* Boolean coercion of a value (the `x && y`, `a || b`, `if (x)` tests).
Truthy(v) ==
    CASE v.t \in {"undefined", "null"} -> FALSE
      [] v.t = "number" -> v.p \notin {"0", "NaN"}
      [] v.t = "string" -> v.p # ""
      [] v.t = "boolean" -> v.p = "true"
      [] OTHER -> TRUE

\* a === b.  Object identity is not represented; the operator is applied to
\* two object-like values only by the default signal predicate, and the
\* signals of the model that use it hold primitives.
StrictEqAlwaysFalse(a, b) == FALSE
StrictEq(a, b) ==
    IF IsObjectLike(a) \/ IsObjectLike(b) THEN FALSE
    ELSE a = b /\ a # NaN

\* x[key] for an own-property lookup; a missing property reads undefined.
\* Array keys are the indices 0..length-1 (held here as the positions 1..Len).
GetProp(v, key) ==
    IF v.t = "object" /\ key \in DOMAIN v.f THEN v.f[key] ELSE Undefined
GetIndex(v, i) ==
    IF v.t = "array" /\ i \in DOMAIN v.s THEN v.s[i] ELSE Undefined

\* Object.keys(x).length
KeyCount(v) == IF v.t = "array" THEN Len(v.s) ELSE Cardinality(DOMAIN v.f)

RECURSIVE isEqual(_, _)
isEqual(x, y) ==
    IF IsObjectLike(x) /\ IsObjectLike(y)
    THEN /\ KeyCount(x) = KeyCount(y)
         /\ IF x.t = "array"
            THEN \A i \in DOMAIN x.s : isEqual(x.s[i], GetIndex(y, i))
            ELSE \A key \in DOMAIN x.f : isEqual(x.f[key], GetProp(y, key))
    ELSE StrictEq(x, y)

(***************************************************************************)
(* The signal graph (signals.ts)                                           *)
(***************************************************************************)
Signals == {"A", "B", "C", "page"}
EffectIds == 1..MaxEffects
NoObserver == 0

\* The value an effect run leaves in `cleaner`: nothing, or a function; e and
\* k name the effect and the run that returned it.
NoCleaner == [kind |-> "undefined", e |-> 0, k |-> 0]
MkCleaner(kind, e, k) ==
    IF kind = "undefined" THEN NoCleaner ELSE [kind |-> kind, e |-> e, k |-> k]

\* The callbacks handed to subscribe.  Every callback runs as fn(get()) on
\* the signal sig; a "cond" callback then reads A when the value it was given
\* is truthy and B otherwise; a "throw" callback throws; ret is what a
\* callback that returns normally returns.
Programs ==
    {[sig |-> "A", kind |-> "plain", ret |-> "fn"],
     [sig |-> "C", kind |-> "cond", ret |-> "fn"],
     [sig |-> "A", kind |-> "throw", ret |-> "undefined"]}

\* Callbacks of which one writes a signal: a "relay" callback on A, and a
\* plain callback on the signal B it writes
NestedPrograms ==
    {[sig |-> "A", kind |-> "relay", ret |-> "undefined"],
     [sig |-> "B", kind |-> "plain", ret |-> "undefined"],
     [sig |-> "C", kind |-> "plain", ret |-> "undefined"]}

\* Callbacks of which one calls a disposer: a "disposing" callback on A calls
\* the disposer of the subscription made after its own, once that exists
DisposingPrograms ==
    {[sig |-> "A", kind |-> "disposing", ret |-> "undefined"],
     [sig |-> "A", kind |-> "plain", ret |-> "fn"]}

VARIABLES
    val,        \* signal -> its `state`
    subs,       \* signal -> its `subscribers` Set, in insertion order
    links,      \* effect -> its `subscribers` Set of unlink closures (by signal)
    cleaner,    \* effect -> its `cleaner`
    observer,   \* the module-level `observer`
    microtasks, \* dispose() calls suspended at `await cleaner`, oldest first
    prog,       \* effect -> the callback it was created with
    created,    \* the effects that exist
    runs,       \* effect -> number of times its callback has been called
    reads,      \* effect -> the signals its callback read during its last run
    regs,       \* signal -> effect -> time of registration (0: not registered)
    flushed,    \* the cleanup invocations so far, in order
    live,       \* effect -> not explicitly disposed since its last run
    last,       \* the most recent synchronous call and what it did
    ops         \* number of set and disposer calls made

sigVars == <<val, subs, links, cleaner, observer, microtasks,
             prog, created, runs, reads, regs, flushed, live, last, ops>>

\* The graph as one value, so that the operations compose.
Graph ==
    [val |-> val, subs |-> subs, links |-> links, cleaner |-> cleaner,
     observer |-> observer, microtasks |-> microtasks, prog |-> prog, runs |-> runs, reads |-> reads,
     regs |-> regs, flushed |-> flushed, live |-> live,
     ran |-> <<>>, exc |-> FALSE]

Commit(G) ==
    /\ val' = G.val
    /\ subs' = G.subs
    /\ links' = G.links
    /\ cleaner' = G.cleaner
    /\ observer' = G.observer
    /\ microtasks' = G.microtasks
    /\ prog' = G.prog
    /\ runs' = G.runs
    /\ reads' = G.reads
    /\ regs' = G.regs
    /\ flushed' = G.flushed
    /\ live' = G.live

\* Set.add / Set.delete on an insertion-ordered set
SetAdd(seq, x) == IF x \in Range(seq) THEN seq ELSE Append(seq, x)
SetDelete(seq, x) == SelectSeq(seq, LAMBDA y : y # x)

\* A time later than every registration in force.
Max(S) == CHOOSE x \in S : \A y \in S : y <= x
NextStamp(G) == 1 + Max({0} \cup {G.regs[s][e] : s \in Signals, e \in EffectIds})

\* signal.get(): register the observer, return state
Get(G, s) ==
    IF G.observer # NoObserver /\ G.observer \notin Range(G.subs[s])
    THEN [G EXCEPT !.subs[s] = Append(@, G.observer),
                   !.links[G.observer] = SetAdd(@, s),
                   !.regs[s][G.observer] = NextStamp(G)]
    ELSE G

\* a get() made by the callback of effect e
Read(G, e, s) == [Get(G, s) EXCEPT !.reads[e] = @ \cup {s}]

\* signal.unlink(dependency)
Unlink(G, s, e) ==
    [G EXCEPT !.subs[s] = SetDelete(@, e), !.regs[s][e] = 0]

RECURSIVE UnlinkAll(_, _, _)
UnlinkAll(G, e, sigs) ==
    IF sigs = <<>> THEN G
    ELSE UnlinkAll(Unlink(G, Head(sigs), e), e, Tail(sigs))

\* dispose(), up to its `await cleaner`: unlink from every signal, clear the
\* link set, and suspend on the value `cleaner` holds at that moment.
UnlinkNone(G, e, sigs) == G
UnlinkLinks(G, e, sigs) == UnlinkAll(G, e, sigs)
DisposeSync(G, e, by) ==
    LET G1 == [UnlinkLinks(G, e, G.links[e]) EXCEPT !.links[e] = <<>>]
        c == G.cleaner[e]
        cont == [e |-> e, flush |-> c, by |-> by]
    IN [G1 EXCEPT !.microtasks = Append(@, cont)]

\* dispose(), after its `await cleaner`: call the awaited value if it is a
\* function, then reset `cleaner`.
DisposeResume(G, cont) ==
    LET G1 == IF cont.flush.kind # "undefined"
              THEN [G EXCEPT !.flushed = Append(@,
                        [e |-> cont.flush.e, k |-> cont.flush.k, by |-> cont.by,
                         runsThen |-> G.runs[cont.flush.e]])]
              ELSE G
    IN [G1 EXCEPT !.cleaner[cont.e] = NoCleaner]

\* cleaner = fn(): the callback of effect e runs as fn(get()); a "relay"
\* callback writes the value it was given to B and then reads C; a
\* "disposing" callback calls the disposer subscribe returned for effect e + 1
RECURSIVE Set(_, _, _, _)
RunFn(G, e) ==
    LET p == G.prog[e]
        k == G.runs[e] + 1
        Ga == [G EXCEPT !.runs[e] = k, !.reads[e] = {}, !.live[e] = TRUE,
                        !.ran = Append(@, e)]
        Gb == Read(Ga, e, p.sig)
        Gc == CASE p.kind = "cond" ->
                    Read(Gb, e, IF Truthy(Gb.val[p.sig]) THEN "A" ELSE "B")
                [] p.kind = "relay" ->
                    Read(Set(Gb, "B", [fn |-> "", v |-> Gb.val[p.sig]], FALSE), e, "C")
                [] p.kind = "disposing" ->
                    IF e + 1 \in EffectIds /\ Gb.runs[e + 1] > 0
                    THEN [DisposeSync(Gb, e + 1, "disposer") EXCEPT !.live[e + 1] = FALSE]
                    ELSE Gb
                [] OTHER -> Gb
    IN IF p.kind = "throw"
       THEN [Gc EXCEPT !.exc = TRUE]
       ELSE [Gc EXCEPT !.cleaner[e] = MkCleaner(p.ret, e, k)]

\* try { ... } catch (e) { console.error(e) }
CatchNothing(G) == G
Catch(G) == [G EXCEPT !.exc = FALSE]

\* notify()
Notify(G, e) ==
    LET G1 == DisposeSync(G, e, "notify")
        G2 == [G1 EXCEPT !.observer = e]
        G3 == Catch(RunFn(G2, e))
    IN IF G3.exc THEN G3 ELSE [G3 EXCEPT !.observer = NoObserver]

\* [...subscribers]
Reverse(seq) == [i \in 1..Len(seq) |-> seq[Len(seq) + 1 - i]]
SnapshotReversed(seq) == Reverse(seq)
Snapshot(seq) == seq

\* for (const subscriber of snapshot) subscriber.notify(); a pending
\* exception leaves the loop.
RECURSIVE NotifyAll(_, _)
NotifyAll(G, seq) ==
    IF seq = <<>> \/ G.exc THEN G
    ELSE NotifyAll(Notify(G, Head(seq)), Tail(seq))

\* The equality predicate a signal was created with.
Equals(s, a, b) == IF s = "page" THEN isEqual(a, b) ELSE StrictEq(a, b)

\* value instanceof Function ? value(state) : value
SetArgs(values) ==
    {[fn |-> "", v |-> v] : v \in values} \cup {[fn |-> "keep", v |-> Undefined]}
NextValue(arg, state) == IF arg.fn = "keep" THEN state ELSE arg.v

\* signal.set(value, force)
Set(G, s, arg, force) ==
    LET next == NextValue(arg, G.val[s])
    IN IF ~force /\ Equals(s, G.val[s], next) THEN G
       ELSE NotifyAll([G EXCEPT !.val[s] = next], Snapshot(G.subs[s]))

\* effect(fn): the first notify()
Effect(G, e, p) == Notify([G EXCEPT !.prog[e] = p], e)

(***************************************************************************)
(* Objects and arrays as the navigation extension uses them                *)
(***************************************************************************)
NoFields == <<>>

\* The index keys "0", "1", ... of an array of n elements
IndexKeys(n) == {ToString(i - 1) : i \in 1..n}
IndexOf(key, n) == CHOOSE i \in 1..n : ToString(i - 1) = key

\* The own enumerable properties { ...v } copies: the fields of an object,
\* the elements of an array by index, nothing for the primitives of the
\* model (undefined, null, numbers, booleans).
Fields(v) ==
    CASE v.t = "object" -> v.f
      [] v.t = "array" -> [key \in IndexKeys(Len(v.s)) |-> v.s[IndexOf(key, Len(v.s))]]
      [] OTHER -> NoFields

\* v[key]
PropOf(v, key) == IF key \in DOMAIN Fields(v) THEN Fields(v)[key] ELSE Undefined

\* { ...a, ...b }
Spread(a, b) == Obj(Fields(b) @@ Fields(a))

\* o[key] = v on an object
SetProp(o, key, v) == Obj((key :> v) @@ o.f)

\* a || b
OrElse(a, b) == IF Truthy(a) THEN a ELSE b

\* Array.isArray(x) && x.length > 0, for a config list
NonEmptyList(v) == v.t = "array" /\ v.s # <<>>

\* What a throw of TypeError leaves in place of a result
TypeError == [t |-> "thrown", p |-> "TypeError", s |-> <<>>, f |-> <<>>]
IsThrown(v) == v.t = "thrown"

\* [...v] is defined for arrays (strings, the other iterable, are not among
\* the prop values of the model)
Iterable(v) == v.t = "array"

\* deepMerge(target, source)
RECURSIVE deepMerge(_, _)
deepMerge(target, source) ==
    IF source.t = "array"
    THEN Arr((IF target.t = "array" THEN target.s ELSE <<>>) \o source.s)
    ELSE IF source.t = "object"
    THEN Obj([key \in DOMAIN Fields(target) \cup DOMAIN source.f |->
                IF key \in DOMAIN source.f
                THEN deepMerge(IF Truthy(target) THEN PropOf(target, key) ELSE Undefined,
                               source.f[key])
                ELSE Fields(target)[key]])
    ELSE source

\* The loop over newPage.deepMergeProps
RECURSIVE DeepMergeEach(_, _, _)
DeepMergeEach(props, oldProps, list) ==
    IF list = <<>> THEN props
    ELSE LET prop == Head(list).p
         IN DeepMergeEach(
                SetProp(props, prop, deepMerge(PropOf(oldProps, prop), PropOf(props, prop))),
                oldProps, Tail(list))

\* One step of the loop over newPage.mergeProps
MergeReplace(old, incomingProp) == incomingProp
MergeOne(old, incomingProp) ==
    LET prev == OrElse(old, Arr(<<>>))
    IN IF incomingProp.t = "array"
       THEN IF Iterable(prev) THEN Arr(prev.s \o incomingProp.s) ELSE TypeError
       ELSE IF incomingProp.t = "object"
       THEN Spread(prev, incomingProp)
       ELSE incomingProp

RECURSIVE MergeEach(_, _, _)
MergeEach(props, oldProps, list) ==
    IF list = <<>> \/ IsThrown(props) THEN props
    ELSE LET prop == Head(list).p
             merged == MergeOne(PropOf(oldProps, prop), PropOf(props, prop))
         IN IF IsThrown(merged) THEN TypeError
            ELSE IF IsObjectLike(PropOf(props, prop))
            THEN MergeEach(SetProp(props, prop, merged), oldProps, Tail(list))
            ELSE MergeEach(props, oldProps, Tail(list))

\* pageMutations(newPage, oldPage)
pageMutations(newPage, oldPage) ==
    LET oldProps == PropOf(oldPage, "props")
        deep == IF Truthy(PropOf(newPage, "deepMergeProps"))
                THEN DeepMergeEach(PropOf(newPage, "props"), oldProps,
                                   PropOf(newPage, "deepMergeProps").s)
                ELSE PropOf(newPage, "props")
        merged == IF Truthy(PropOf(newPage, "mergeProps"))
                  THEN MergeEach(deep, oldProps, PropOf(newPage, "mergeProps").s)
                  ELSE deep
    IN IF IsThrown(merged) THEN TypeError ELSE SetProp(newPage, "props", merged)

(***************************************************************************)
(* The navigation extension: history writes (state.ts) and the response    *)
(* phase (core.ts)                                                         *)
(***************************************************************************)
VARIABLES
    history,    \* the session history: entries [state, url], oldest first
    hidx,       \* the position of the current entry
    cache,      \* the remember table (remember.ts `cache`), key -> value
    jobs,       \* pushState() calls suspended at an await, oldest first
    storage,    \* the keys held in sessionStorage
    keyGen,     \* which key and IV sessionStorage holds, or held last
    scrollTop,  \* 0 when the window is scrolled to the top
    reloads,    \* the follow-up reloads issued for deferred props
    navs,       \* number of responses handed to resolveResponse
    lastNav,    \* what the most recent resolveResponse call was given and did
    writes      \* the calls made on window.history, in order

navVars == <<history, hidx, cache, jobs, storage, scrollTop, reloads, navs,
             lastNav, writes>>

\* window.location.href
Location == history[hidx].url

\* The object {page, remember} makeState is given
makeState(page, remember) == [page |-> page, remember |-> remember]

SessionKeys == {"historyKey", "historyIv"}

\* JSON.parse(JSON.stringify(v)): keys holding undefined are dropped, and
\* undefined or NaN inside an array becomes null
RECURSIVE JsonRoundTrip(_)
JsonRoundTrip(v) ==
    IF v.t = "object"
    THEN Obj([k \in {j \in DOMAIN v.f : v.f[j].t # "undefined"} |-> JsonRoundTrip(v.f[k])])
    ELSE IF v.t = "array"
    THEN Arr([i \in DOMAIN v.s |-> IF v.s[i].t = "undefined" THEN JNull
                                    ELSE JsonRoundTrip(v.s[i])])
    ELSE IF v = NaN THEN JNull
    ELSE v

\* encrypt(data) under the key and IV of generation gen; intact is FALSE for a
\* buffer that was damaged afterwards
encrypt(data, gen, intact) ==
    [cipher |-> [page |-> JsonRoundTrip(data.page),
                 remember |-> [k \in DOMAIN data.remember |->
                                  JsonRoundTrip(data.remember[k])]],
     gen |-> gen, intact |-> intact]

\* getIv() and getKey(): the stored key and IV, or new ones, stored, when
\* sessionStorage holds none
KeysHeld(store) == SessionKeys \subseteq store.storage
getKey(store) ==
    IF KeysHeld(store) THEN store
    ELSE [storage |-> SessionKeys, keyGen |-> store.keyGen + 1]

\* makeState(page, remember), up to the awaits of encrypt: for a page with
\* encryptHistory, getIv() and getKey() read sessionStorage at the call and
\* renew what it does not hold; h is the browser and state the entry's state
makeStateUnder(h, page, remember) ==
    IF Truthy(PropOf(page, "encryptHistory"))
    THEN LET store == getKey([storage |-> h.storage, keyGen |-> h.keyGen])
         IN [h |-> [h EXCEPT !.storage = store.storage, !.keyGen = store.keyGen],
             state |-> encrypt(makeState(page, remember), store.keyGen, TRUE)]
    ELSE [h |-> h, state |-> makeState(page, remember)]

\* history.replaceState / history.pushState
replaceState(h, state, url) ==
    [h EXCEPT !.history[h.hidx] = [state |-> state, url |-> url]]
pushStateEntry(h, state, url) ==
    [h EXCEPT !.history = Append(SubSeq(h.history, 1, h.hidx), [state |-> state, url |-> url]),
              !.hidx = h.hidx + 1]
HistoryCall(h, method, state, url, nav) ==
    [(IF method = "replaceState" THEN replaceState(h, state, url)
      ELSE pushStateEntry(h, state, url))
     EXCEPT !.writes = Append(@, [nav |-> nav, method |-> method, url |-> url])]

\* The browser and table state pushState works on
Browser ==
    [history |-> history, hidx |-> hidx, cache |-> cache, jobs |-> jobs,
     writes |-> writes, storage |-> storage, keyGen |-> keyGen]

\* pushState(data, replace), up to its first await.  pageState is read from
\* the page store at the call.  nav and asked record which response the call
\* belongs to and what its caller asked for.
PushStateCall(h, data, replace, pageNow, nav, asked) ==
    LET pageState == IF replace THEN data ELSE pageNow
    IN IF Cardinality(DOMAIN h.cache) > 0
       THEN LET made == makeStateUnder(h, pageState, h.cache)
            IN [made.h EXCEPT !.jobs = Append(@,
                [stage |-> "save", nav |-> nav, asked |-> asked, data |-> data,
                 replace |-> replace, state |-> made.state])]
       ELSE LET made == makeStateUnder(h, data, NoFields)
            IN [made.h EXCEPT !.cache = NoFields,
                              !.jobs = Append(@,
                [stage |-> "write", nav |-> nav, asked |-> asked, data |-> data,
                 replace |-> replace, state |-> made.state])]

\* pushState resumed after an await
PushStateResume(h, job) ==
    IF job.stage = "save"
    THEN LET h1 == HistoryCall(h, "replaceState", job.state, h.history[h.hidx].url, job.nav)
         IN IF job.replace THEN h1
            ELSE LET made == makeStateUnder(h1, job.data, NoFields)
                 IN [made.h EXCEPT !.cache = NoFields,
                                   !.jobs = Append(@, [job EXCEPT !.stage = "write",
                                                        !.state = made.state])]
    ELSE HistoryCall(h, IF job.replace THEN "replaceState" ELSE "pushState",
                     job.state, PropOf(job.data, "url").p, job.nav)

RECURSIVE ResumeJobs(_)
ResumeJobs(h) ==
    IF h.jobs = <<>> THEN h
    ELSE ResumeJobs(PushStateResume([h EXCEPT !.jobs = Tail(@)], Head(h.jobs)))

CommitBrowser(h) ==
    /\ history' = h.history
    /\ hidx' = h.hidx
    /\ cache' = h.cache
    /\ jobs' = h.jobs
    /\ writes' = h.writes

\* The replace argument resolveResponse passes to pushState
ShouldReplaceOnSameUrl(config, pageState, data) ==
    \/ Truthy(config.replaceHistory)
    \/ StrictEq(PropOf(pageState, "url"), PropOf(data, "url"))
ShouldReplace(config, pageState, data) ==
    \/ Truthy(config.replaceHistory)
    \/ /\ StrictEq(PropOf(pageState, "url"), PropOf(data, "url"))
       /\ ~StrictEq(config.replaceHistory, Bool("false"))

\* The props of the response after the `only` and `except` blocks
OnlyProps(only, pageState, data) ==
    LET pick == Obj([prop \in {only.s[i].p : i \in DOMAIN only.s} |->
                        PropOf(PropOf(data, "props"), prop)])
    IN Spread(PropOf(pageState, "props"), pick)
ExceptProps(except, pageState, props) ==
    LET keep == Obj([prop \in {except.s[i].p : i \in DOMAIN except.s} |->
                        PropOf(PropOf(pageState, "props"), prop)])
    IN Spread(props, keep)
KeepIncomingProps(config, pageState, data) == PropOf(data, "props")
PartialProps(config, pageState, data) ==
    LET p1 == IF NonEmptyList(config.only)
              THEN OnlyProps(config.only, pageState, data)
              ELSE PropOf(data, "props")
    IN IF NonEmptyList(config.except)
       THEN ExceptProps(config.except, pageState, p1)
       ELSE p1

\* The page resolveResponse hands to pushState and page.set: the response
\* after the only/except blocks, pageMutations and the preserveHistory url
Reconciled(config, pageState, data) ==
    LET partial == SetProp(data, "props", PartialProps(config, pageState, data))
        mutated == pageMutations(partial, pageState)
    IN IF IsThrown(mutated) THEN mutated
       ELSE IF Truthy(config.preserveHistory)
       THEN SetProp(mutated, "url", OrElse(PropOf(pageState, "url"), PropOf(mutated, "url")))
       ELSE mutated

\* loadDeferredProps(page): one reload per group of page.deferredProps
DeferredReloadsWithHistory(page) ==
    LET groups == PropOf(page, "deferredProps")
    IN IF Truthy(groups)
       THEN {[only |-> groups.f[g], preserveHistory |-> FALSE, preserveScroll |-> TRUE] :
                g \in DOMAIN Fields(groups)}
       ELSE {}
DeferredReloads(page) ==
    LET groups == PropOf(page, "deferredProps")
    IN IF Truthy(groups)
       THEN {[only |-> groups.f[g], preserveHistory |-> TRUE, preserveScroll |-> TRUE] :
                g \in DOMAIN Fields(groups)}
       ELSE {}

(***************************************************************************)
(* The calls a client of the signal graph makes                            *)
(***************************************************************************)
NoStamps == [e \in EffectIds |-> 0]

\* What the most recent synchronous call was and did: its arguments, the
\* callbacks it ran, in order, and whether an exception left it.
Called(type, s, arg, force, e, G) ==
    [type |-> type, s |-> s, arg |-> arg, force |-> force, e |-> e,
     ran |-> G.ran, escaped |-> G.exc]

NoArg == [fn |-> "", v |-> Undefined]

\* The graph after construction of the signals: no subscriber yet
NewGraph(page) ==
    [val |-> [s \in Signals |-> IF s = "page" THEN page ELSE Num("0")],
     subs |-> [s \in Signals |-> <<>>],
     links |-> [e \in EffectIds |-> <<>>],
     cleaner |-> [e \in EffectIds |-> NoCleaner],
     observer |-> NoObserver,
     microtasks |-> <<>>,
     prog |-> [e \in EffectIds |-> [sig |-> "A", kind |-> "plain", ret |-> "undefined"]],
     runs |-> [e \in EffectIds |-> 0],
     reads |-> [e \in EffectIds |-> {}],
     regs |-> [s \in Signals |-> NoStamps],
     flushed |-> <<>>,
     live |-> [e \in EffectIds |-> FALSE],
     ran |-> <<>>, exc |-> FALSE]

InitGraph(G, effects) ==
    /\ val = G.val
    /\ subs = G.subs
    /\ links = G.links
    /\ cleaner = G.cleaner
    /\ observer = G.observer
    /\ microtasks = G.microtasks
    /\ prog = G.prog
    /\ created = effects
    /\ runs = G.runs
    /\ reads = G.reads
    /\ regs = G.regs
    /\ flushed = G.flushed
    /\ live = G.live
    /\ last = [type |-> "none", s |-> "", arg |-> NoArg, force |-> FALSE,
               e |-> 0, ran |-> <<>>, escaped |-> FALSE]
    /\ ops = 0

\* const dispose = signal.subscribe(fn)
Subscribe(e, p) ==
    /\ e \notin created
    /\ e = Cardinality(created) + 1
    /\ LET G == Effect(Graph, e, p)
       IN /\ Commit(G)
          /\ last' = Called("subscribe", p.sig, NoArg, FALSE, e, G)
    /\ created' = created \cup {e}
    /\ UNCHANGED ops

\* signal.set(value, force)
SetSignal(s, arg, force) ==
    /\ ops < MaxOps
    /\ LET G == Set(Graph, s, arg, force)
       IN /\ Commit(G)
          /\ last' = Called("set", s, arg, force, 0, G)
    /\ ops' = ops + 1
    /\ UNCHANGED created

\* dispose(): a call of the function subscribe returned
CallDisposer(e) ==
    /\ ops < MaxOps
    /\ e \in created
    /\ LET G == [DisposeSync(Graph, e, "disposer") EXCEPT !.live[e] = FALSE]
       IN /\ Commit(G)
          /\ last' = Called("dispose", "", NoArg, FALSE, e, G)
    /\ ops' = ops + 1
    /\ UNCHANGED created

\* The job queue runs once the current task's code has returned: every
\* suspended dispose() and pushState() resumes, oldest first, before any
\* later task starts.
RECURSIVE ResumeAll(_, _)
ResumeAll(G, queue) ==
    IF queue = <<>> THEN G
    ELSE ResumeAll(DisposeResume(G, Head(queue)), Tail(queue))

RunMicrotasks ==
    /\ microtasks # <<>> \/ jobs # <<>>
    /\ Commit(ResumeAll([Graph EXCEPT !.microtasks = <<>>], microtasks))
    /\ \E h \in {ResumeJobs(Browser)} :
            CommitBrowser(h) /\ storage' = h.storage /\ keyGen' = h.keyGen
    /\ UNCHANGED <<created, last, ops, scrollTop, reloads, navs, lastNav>>

\* The writes a client makes.
SetCalls ==
    {[s |-> "A", arg |-> a, force |-> FALSE] : a \in SetArgs({Num("0"), Num("1"), NaN})}
    \cup {[s |-> "A", arg |-> [fn |-> "", v |-> Num("1")], force |-> TRUE]}
    \cup {[s |-> s, arg |-> [fn |-> "", v |-> v], force |-> FALSE] :
            s \in {"B", "C"}, v \in {Num("0"), Num("1")}}


(***************************************************************************)
(* Pages, responses and request options of the model                       *)
(***************************************************************************)
N1 == Num("1")
N2 == Num("2")
List(items) == Arr(items)
Names(keys) == Arr([i \in DOMAIN keys |-> Str(keys[i])])
MkPage(url, props, extra) ==
    Obj(extra @@ ("component" :> Str("Home")) @@ ("props" :> props)
              @@ ("url" :> Str(url)) @@ ("version" :> JNull))

\* The page createVortex read from the host markup
InitialPage ==
    MkPage("/x", Obj(("list" :> List(<<N1>>)) @@ ("a" :> Obj("x" :> N1))), NoFields)

\* The bodies servers answer with; marker is the x-inertia response header
Responses ==
    {[marker |-> TRUE,
      data |-> MkPage("/x", Obj(("list" :> List(<<N1>>)) @@ ("a" :> Obj("x" :> N1))
                                 @@ ("c" :> N1)), NoFields)],
     [marker |-> TRUE,
      data |-> MkPage("/x", Obj("list" :> List(<<N2>>)), "mergeProps" :> Names(<<"list">>))],
     [marker |-> TRUE,
      data |-> MkPage("/y", Obj("a" :> Obj("y" :> N2)),
                      ("deepMergeProps" :> Names(<<"a">>))
                      @@ ("deferredProps" :> Obj("g" :> Names(<<"list">>)))
                      @@ ("clearHistory" :> Bool("true")))],
     [marker |-> FALSE,
      data |-> MkPage("/y", Obj("list" :> List(<<N2>>)), NoFields)]}

\* The options callers pass as config.vortex
NoOptions ==
    [only |-> Undefined, except |-> Undefined, preserveHistory |-> Undefined,
     replaceHistory |-> Undefined, preserveScroll |-> Undefined]
Configs ==
    {NoOptions,
     [NoOptions EXCEPT !.only = Names(<<"list">>)],
     [NoOptions EXCEPT !.only = Names(<<"b">>)],
     [NoOptions EXCEPT !.except = Names(<<"list">>)],
     [NoOptions EXCEPT !.only = Names(<<"list">>), !.except = Names(<<"list">>)],
     [NoOptions EXCEPT !.replaceHistory = Bool("true")],
     [NoOptions EXCEPT !.replaceHistory = Bool("false")],
     [NoOptions EXCEPT !.preserveHistory = Bool("true"), !.preserveScroll = Bool("true")]}

InitBrowserWith(page, table) ==
    /\ history = <<[state |-> makeState(page, NoFields), url |-> PropOf(page, "url").p]>>
    /\ hidx = 1
    /\ cache = table
    /\ jobs = <<>>
    /\ storage = SessionKeys
    /\ scrollTop = 1
    /\ reloads = DeferredReloads(page)
    /\ navs = 0
    /\ lastNav = [config |-> NoOptions, marker |-> FALSE, incoming |-> Undefined,
                  old |-> Undefined, reconciled |-> Undefined, replace |-> "none"]
    /\ writes = <<>>

InitBrowser(page) == InitBrowserWith(page, NoFields)

\* resolveResponse(response), for a response of a call that is not a prefetch
\* and has config.vortex set
ResolveResponse(resp, config) ==
    /\ navs < MaxNav
    /\ navs' = navs + 1
    /\ \E data \in {Reconciled(config, val["page"], resp.data)} :
       LET pageState == val["page"]
       IN IF ~resp.marker \/ IsThrown(data)
          THEN /\ lastNav' = [config |-> config, marker |-> resp.marker,
                              incoming |-> resp.data, old |-> pageState,
                              reconciled |-> IF resp.marker THEN data ELSE Undefined,
                              replace |-> "none"]
               /\ UNCHANGED <<sigVars, history, hidx, cache, jobs, storage, keyGen,
                              scrollTop, reloads, writes>>
          ELSE LET replace == ShouldReplace(config, pageState, data)
                   called == IF Truthy(config.preserveHistory) THEN Browser
                             ELSE PushStateCall(Browser, data, replace, pageState, navs + 1,
                                                [replaceHistory |-> config.replaceHistory,
                                                 oldUrl |-> PropOf(pageState, "url"),
                                                 newUrl |-> PropOf(data, "url")])
               IN \E h \in {called}, G \in {Set(Graph, "page", [fn |-> "", v |-> data], FALSE)} :
                  /\ CommitBrowser(h)
                  /\ Commit(G)
                  /\ last' = Called("set", "page", [fn |-> "", v |-> data], FALSE, 0, G)
                  /\ storage' = IF Truthy(PropOf(pageState, "clearHistory"))
                                THEN h.storage \ SessionKeys ELSE h.storage
                  /\ keyGen' = h.keyGen
                  /\ reloads' = reloads \cup DeferredReloads(data)
                  /\ scrollTop' = IF Truthy(config.preserveScroll) THEN scrollTop ELSE 0
                  /\ lastNav' = [config |-> config, marker |-> TRUE,
                                 incoming |-> resp.data, old |-> pageState,
                                 reconciled |-> data,
                                 replace |-> IF Truthy(config.preserveHistory) THEN "none"
                                             ELSE IF replace THEN "replace" ELSE "push"]
                  /\ UNCHANGED <<created, ops>>

\* The config.vortex of the follow-up reload r, and the response a server
\* gives it: a page with the props asked for
FollowUp(r) ==
    [NoOptions EXCEPT !.only = r.only,
                      !.preserveHistory = Bool(IF r.preserveHistory THEN "true" ELSE "false"),
                      !.preserveScroll = Bool(IF r.preserveScroll THEN "true" ELSE "false")]
GroupProps(r) == {r.only.s[i].p : i \in DOMAIN r.only.s}
Delivered(r, url, v) ==
    [marker |-> TRUE, data |-> MkPage(url, Obj([prop \in GroupProps(r) |-> v]), NoFields)]

\* A page with two groups of deferred props
DeferredPage ==
    MkPage("/x", Obj("list" :> List(<<N1>>)),
           "deferredProps" :> Obj(("g1" :> Names(<<"c">>)) @@ ("g2" :> Names(<<"d", "e">>))))

\* A remembered state stores its value in the table (remember.ts)
RememberKeys == {"form"}
Remember(key, v) ==
    /\ key \notin DOMAIN cache
    /\ cache' = (key :> v) @@ cache
    /\ UNCHANGED <<sigVars, history, hidx, jobs, storage, scrollTop, reloads, navs,
                   lastNav, writes>>

(***************************************************************************)
(* The interceptors of the navigation extension: how a call settles        *)
(* (core.ts resolveResponse, resolveResponseError)                         *)
(***************************************************************************)
VARIABLES
    href,       \* the URL assigned to window.location.href, "" when none was
    dialogs,    \* number of error dialogs renderError has shown
    outcome     \* the interceptor the most recent response went through, the
                \* error's flags, and how the call's promise settled

errVars == <<href, dialogs, outcome>>

NoOutcome == [kind |-> "none", settled |-> "none", enabled |-> FALSE, location |-> ""]
InitErrors ==
    /\ href = ""
    /\ dialogs = 0
    /\ outcome = NoOutcome

\* How the promise settles when resolveResponse is the handler: with the
\* response it returns, or with what pageMutations threw
SettledBy(data) == IF IsThrown(data) THEN "rejected" ELSE "resolved"

\* resolveResponse installed as the fulfilment handler of the call
OnResponse(resp, config) ==
    /\ ResolveResponse(resp, config)
    /\ outcome' = [kind |-> "response", settled |-> SettledBy(lastNav'.reconciled),
                   enabled |-> TRUE, location |-> ""]
    /\ UNCHANGED <<href, dialogs>>

\* The follow-up reload r, not answered before, is answered: its response
\* goes through resolveResponse under the reload's config
AnswerDeferred(r, url, v) ==
    /\ r \in reloads
    /\ ~(GroupProps(r) \subseteq DOMAIN Fields(PropOf(val["page"], "props")))
    /\ OnResponse(Delivered(r, url, v), FollowUp(r))

\* The branch resolveResponseError takes.  err.enabled is config.vortex,
\* err.location the x-inertia-location header ("" when absent), err.marker
\* the x-inertia header.
ErrorBranchNoRedirect(err) ==
    IF ~err.enabled THEN "reject"
    ELSE IF ~err.marker THEN "dialog"
    ELSE "reconcile"
ErrorBranchOfUntagged(err) ==
    IF ~err.enabled THEN "reject"
    ELSE IF err.location # "" THEN "redirect"
    ELSE "dialog"
ErrorBranch(err) ==
    IF ~err.enabled THEN "reject"
    ELSE IF err.location # "" THEN "redirect"
    ELSE IF ~err.marker THEN "dialog"
    ELSE "reconcile"

\* How the promise settles on a branch that does not reconcile: the redirect
\* returns Promise.resolve(error.response), the others Promise.reject(error)
SettledResolved(branch) == "resolved"
SettledAt(branch) == IF branch = "redirect" THEN "resolved" ELSE "rejected"

\* What a branch that does not reconcile leaves in the ghost record
Unreconciled(err, config) ==
    [config |-> config, marker |-> err.marker, incoming |-> err.data,
     old |-> val["page"], reconciled |-> Undefined, replace |-> "none"]

\* resolveResponseError(error) installed as the rejection handler of the call
ResolveResponseError(err, config) ==
    LET branch == ErrorBranch(err)
        result(settled) == [kind |-> "error", settled |-> settled,
                            enabled |-> err.enabled, location |-> err.location]
    IN IF branch = "reconcile"
       THEN /\ ResolveResponse([marker |-> TRUE, data |-> err.data], config)
            /\ outcome' = result(SettledBy(lastNav'.reconciled))
            /\ UNCHANGED <<href, dialogs>>
       ELSE /\ navs < MaxNav
            /\ navs' = navs + 1
            /\ lastNav' = Unreconciled(err, config)
            /\ href' = IF branch = "redirect" THEN err.location ELSE href
            /\ dialogs' = IF branch = "dialog" THEN dialogs + 1 ELSE dialogs
            /\ outcome' = result(SettledAt(branch))
            /\ UNCHANGED <<sigVars, history, hidx, cache, jobs, storage, scrollTop,
                           reloads, writes>>

\* The error responses servers answer with: an HTML error page, a validation
\* error carrying a page, a redirect signal, and an error of a call made with
\* vortex: false
ErrorPage == Str("<h1>500</h1>")
Errors ==
    {[enabled |-> TRUE, location |-> "", marker |-> FALSE, data |-> ErrorPage],
     [enabled |-> TRUE, location |-> "", marker |-> TRUE,
      data |-> MkPage("/x", Obj(("list" :> List(<<N2>>)) @@ ("errors" :> Obj("name" :> N1))),
                      NoFields)],
     [enabled |-> TRUE, location |-> "/login", marker |-> TRUE,
      data |-> MkPage("/y", Obj("list" :> List(<<N2>>)), NoFields)],
     [enabled |-> FALSE, location |-> "", marker |-> FALSE, data |-> ErrorPage]}

(***************************************************************************)
(* Restoring a history entry (state.ts popState, encryption.ts)            *)
(***************************************************************************)
MaxPop == 2

VARIABLES
    warnings,   \* number of console.warn calls
    requests,   \* the requests popState has issued, in order
    pops,       \* number of popstate events delivered
    lastPop     \* what the most recent popstate handler did

popVars == <<keyGen, warnings, requests, pops, lastPop>>

\* A history entry without state, e.g. one made by following a fragment link
NullState == [null |-> TRUE]
IsArrayBuffer(state) == "cipher" \in DOMAIN state

\* decrypt(data): the plain state, or a rejection when the buffer was not
\* produced under the key and IV now held
Rejection == [rejected |-> TRUE]
decrypt(data, store) ==
    IF data.intact /\ data.gen = getKey(store).keyGen THEN data.cipher ELSE Rejection

\* resolveState(state)
resolveState(state, store) ==
    IF IsArrayBuffer(state) THEN decrypt(state, store) ELSE state

\* try { state = await resolveState(event.state) } catch (error) { ... }
CaughtNever(result) == FALSE
Caught(result) == "rejected" \in DOMAIN result

\* The navigation popState falls back to
FreshFetch(url) ==
    [method |-> "get", url |-> url,
     vortex |-> [preserveScroll |-> TRUE, replaceHistory |-> TRUE]]

\* Object.entries(state.remember).forEach(([key, value]) => cache.set(key, value))
Restore(table, remember) == remember @@ table

NoPop == [i |-> 0, kind |-> "none", escaped |-> FALSE, page |-> Undefined,
          remember |-> NoFields, tableAtSet |-> NoFields]

\* popState(event) for the entry at position i, with the continuation the
\* job queue runs after the handler returned
PopState(i) ==
    /\ pops < MaxPop
    /\ i \in DOMAIN history /\ i # hidx
    /\ pops' = pops + 1
    /\ hidx' = i
    /\ LET state == history[i].state
           store == [storage |-> storage, keyGen |-> keyGen]
           after == IF IsArrayBuffer(state) THEN getKey(store) ELSE store
           result == IF state = NullState THEN state ELSE resolveState(state, store)
       IN /\ storage' = after.storage
          /\ keyGen' = after.keyGen
          /\ IF state = NullState
             THEN /\ lastPop' = [NoPop EXCEPT !.i = i, !.kind = "ignored"]
                  /\ UNCHANGED <<sigVars, cache, warnings, requests>>
             ELSE IF "rejected" \in DOMAIN result
             THEN IF Caught(result)
                  THEN /\ warnings' = warnings + 1
                       /\ requests' = Append(requests, FreshFetch(history[i].url))
                       /\ lastPop' = [NoPop EXCEPT !.i = i, !.kind = "fallback"]
                       /\ UNCHANGED <<sigVars, cache>>
                  ELSE /\ lastPop' = [NoPop EXCEPT !.i = i, !.kind = "fallback",
                                                   !.escaped = TRUE]
                       /\ UNCHANGED <<sigVars, cache, warnings, requests>>
             ELSE LET table == Restore(cache, result.remember)
                      G == Set(Graph, "page", [fn |-> "", v |-> result.page], FALSE)
                  IN /\ cache' = table
                     /\ Commit(G)
                     /\ last' = Called("set", "page", [fn |-> "", v |-> result.page],
                                       FALSE, 0, G)
                     /\ lastPop' = [i |-> i, kind |-> "restored", escaped |-> FALSE,
                                    page |-> result.page, remember |-> result.remember,
                                    tableAtSet |-> table]
                     /\ UNCHANGED <<created, ops, warnings, requests>>
    /\ UNCHANGED <<history, jobs, scrollTop, reloads, navs, lastNav, writes>>

\* clear(): what reconciling a response does when the previous page had
\* clearHistory (core.ts 126-128)
ClearKeys ==
    /\ storage # {}
    /\ storage' = storage \ SessionKeys
    /\ UNCHANGED <<sigVars, history, hidx, cache, jobs, scrollTop, reloads, navs,
                   lastNav, writes, keyGen, warnings, requests, pops, lastPop>>

IdlePop ==
    /\ keyGen = 1
    /\ warnings = 0
    /\ requests = <<>>
    /\ pops = 0
    /\ lastPop = NoPop

\* The page a reload with only: ['b'] leaves when the response carries no b
PageAfterOnlyB ==
    MkPage("/x", Obj(("list" :> List(<<N1>>)) @@ ("a" :> Obj("x" :> N1))
                     @@ ("b" :> Undefined)), NoFields)
\* A session's history: the current page; a page pushed on the same URL by
\* a call with replaceHistory: false; an encrypted page with a remember
\* snapshot; an entry without state; an encrypted entry damaged in storage
PopHistory(page) ==
    <<[state |-> makeState(page, NoFields), url |-> "/x"],
      [state |-> makeState(
                    MkPage("/x", Obj(("list" :> List(<<N1>>)) @@ ("a" :> Obj("x" :> N1))
                                     @@ ("c" :> N1)), NoFields),
                    "form" :> N2),
       url |-> "/x"],
      [state |-> encrypt(makeState(
                    MkPage("/z", Obj(("list" :> List(<<N2>>)) @@ ("d" :> Undefined)),
                           "encryptHistory" :> Bool("true")),
                    ("form" :> N2) @@ ("tab" :> N1)), 1, TRUE),
       url |-> "/z"],
      [state |-> NullState, url |-> "/z#top"],
      [state |-> encrypt(makeState(MkPage("/w", Obj("list" :> List(<<N2>>)),
                                          "encryptHistory" :> Bool("true")),
                                   NoFields), 1, FALSE),
       url |-> "/w"]>>

InitHistory(page) ==
    /\ history = PopHistory(page)
    /\ hidx = 1
    /\ cache = NoFields
    /\ jobs = <<>>
    /\ storage = SessionKeys
    /\ scrollTop = 1
    /\ reloads = {}
    /\ navs = 0
    /\ lastNav = [config |-> NoOptions, marker |-> FALSE, incoming |-> Undefined,
                  old |-> Undefined, reconciled |-> Undefined, replace |-> "none"]
    /\ writes = <<>>

(***************************************************************************)
(* The prefetch cache (prefetch.ts)                                        *)
(***************************************************************************)
MaxReq == 3
MaxTime == 2000

VARIABLES
    now,        \* Date.now(), in ms
    pcache,     \* the Map `cache`: key -> [ttl, stale, timestamp, response]
    calls,      \* the network calls made by the default adapter, in order;
                \* calls[c].prefetch is config.prefetch of call c's response
    preqs       \* the requests made through axios, in order

pfVars == <<now, pcache, calls, preqs>>

\* All requests of the model have one method, URL and body, hence one hash
Key == "k"

\* durationToMs(duration), for the duration strings '<n><unit>'
Multiplier == ("ms" :> 1) @@ ("s" :> 1000) @@ ("m" :> 60000)
durationToMs(duration) == duration.n * Multiplier[duration.unit]
Duration(n, unit) == [n |-> n, unit |-> unit]
\* The clock advances in steps of half a second
Step == durationToMs(Duration(500, "ms"))

\* getTimeParams(prefetch): a string is the ttl, an array is [ttl, stale],
\* anything else but `true` gives ttl 0; a stale of 0 stands for undefined
getTimeParams(prefetch, time) ==
    IF prefetch.form = "array"
    THEN [ttl |-> durationToMs(prefetch.ttl), stale |-> durationToMs(prefetch.stale),
          timestamp |-> time]
    ELSE IF prefetch.form = "true"
    THEN [ttl |-> durationToMs(Duration(30, "s")), stale |-> 0, timestamp |-> time]
    ELSE IF prefetch.form = "string"
    THEN [ttl |-> durationToMs(prefetch.ttl), stale |-> 0, timestamp |-> time]
    ELSE [ttl |-> 0, stale |-> 0, timestamp |-> time]

\* isExpired(response)
isExpired(entry, time) ==
    LET age == time - entry.timestamp
        isStale == entry.stale # 0 /\ age < entry.stale
    IN age > entry.ttl /\ ~isStale

\* The request interceptor's sweep: cache.forEach(... cache.delete(k))
Sweep(table, time) ==
    [k \in {j \in DOMAIN table : ~isExpired(table[j], time)} |-> table[k]]

\* The prefetch extension as one value
Prefetcher == [cache |-> pcache, calls |-> calls, reqs |-> preqs]

\* adapter(config): the default adapter starts a network call
NetworkCall(pf, prefetch, time) ==
    [pf EXCEPT !.calls = Append(@, [at |-> time, status |-> "pending",
                                     prefetch |-> prefetch])]

\* A request at the adapter; `found` records the durations of the entry the
\* cache held for the key when the request was made
NotCached == [ttl |-> 0 - 1, stale |-> 0 - 1]
NewRequest(kind, call, source, time) ==
    [kind |-> kind, at |-> time, call |-> call, source |-> source, found |-> NotCached,
     status |-> "waiting", result |-> "none", seen |-> "none"]
Made(pf, table) ==
    IF Key \notin DOMAIN table THEN pf
    ELSE [pf EXCEPT !.reqs[Len(pf.reqs)].found =
                        [ttl |-> table[Key].ttl, stale |-> table[Key].stale]]

\* handlePrefetch(config, key, adapter), up to its return
handlePrefetch(pf, prefetch, time) ==
    IF Key \in DOMAIN pf.cache
    THEN [pf EXCEPT !.reqs = Append(@, NewRequest("prefetch", pf.cache[Key].response,
                                                  "cache", time))]
    ELSE LET net == NetworkCall(pf, TRUE, time)
             c == Len(net.calls)
         IN [net EXCEPT !.cache = (Key :> (getTimeParams(prefetch, time)
                                            @@ [response |-> c])),
                        !.reqs = Append(@, NewRequest("prefetch", c, "network", time))]

\* The freshness tests of handleRequest
IsFreshOrAtTtl(entry, age) == entry.ttl # 0 /\ age <= entry.ttl
IsFresh(entry, age) == entry.ttl # 0 /\ age < entry.ttl
IsUsableNever(entry, age) == FALSE
IsUsable(entry, age) == entry.stale # 0 /\ age < entry.stale

\* handleRequest(config, key, adapter), up to its return.  The request
\* issued by axios.request(config) for revalidation reaches the default
\* adapter in the same turn, the entry being deleted already.
handleRequest(pf, time) ==
    LET direct == NetworkCall(pf, FALSE, time)
        fetched(p) == [p EXCEPT !.reqs = Append(@, NewRequest("normal", Len(p.calls),
                                                             "network", time))]
    IN IF Key \notin DOMAIN pf.cache THEN fetched(direct)
       ELSE LET cached == pf.cache[Key]
                age == time - cached.timestamp
                served(p) == [p EXCEPT !.reqs = Append(@, NewRequest("normal",
                                                    cached.response, "cache", time))]
            IN IF IsFresh(cached, age) THEN served(pf)
               ELSE LET evicted == [pf EXCEPT !.cache = <<>>]
                    IN IF IsUsable(cached, age)
                       THEN LET net == NetworkCall(evicted, FALSE, time)
                                revalidating ==
                                    [net EXCEPT !.reqs = Append(@,
                                        NewRequest("revalidate", Len(net.calls),
                                                   "network", time))]
                            IN served(revalidating)
                       ELSE fetched(NetworkCall(evicted, FALSE, time))

\* The continuations of toResponse that the job queue runs in one turn:
\* each request waiting on a completed call first writes res.config.prefetch
\* of that call's response (in the order the waits were registered), then
\* the response interceptors read it.  A failed call rejects every waiter.
Ready(pf) ==
    {r \in DOMAIN pf.reqs : pf.reqs[r].status = "waiting"
                            /\ pf.calls[pf.reqs[r].call].status # "pending"}
FlagOf(pf, c, writers) ==
    IF writers = {} THEN pf.calls[c].prefetch
    ELSE pf.reqs[CHOOSE r \in writers : \A q \in writers : q <= r].kind = "prefetch"
Settle(pf) ==
    LET ready == Ready(pf)
        writers(c) == {r \in ready : pf.reqs[r].call = c /\ pf.calls[c].status = "ok"}
        flags == [c \in DOMAIN pf.calls |->
                    [pf.calls[c] EXCEPT !.prefetch = FlagOf(pf, c, writers(c))]]
    IN [pf EXCEPT
          !.calls = flags,
          !.reqs = [r \in DOMAIN pf.reqs |->
                      IF r \notin ready THEN pf.reqs[r]
                      ELSE LET c == pf.reqs[r].call
                           IN IF pf.calls[c].status = "ok"
                              THEN [pf.reqs[r] EXCEPT !.status = "settled",
                                        !.result = "ok",
                                        !.seen = IF flags[c].prefetch THEN "prefetch"
                                                 ELSE "normal"]
                              ELSE [pf.reqs[r] EXCEPT !.status = "settled",
                                        !.result = "failed"]]]

CommitPrefetcher(pf) ==
    /\ pcache' = pf.cache
    /\ calls' = pf.calls
    /\ preqs' = pf.reqs

\* The requests a client has made (revalidations are made by the extension)
Issued == Cardinality({r \in DOMAIN preqs : preqs[r].kind # "revalidate"})

\* axios.request({..., prefetch}): the interceptor's sweep, then the adapter
IssuePrefetch(prefetch) ==
    /\ Issued < MaxReq
    /\ CommitPrefetcher(Made(handlePrefetch([Prefetcher EXCEPT !.cache = Sweep(@, now)],
                                            prefetch, now), pcache))
    /\ UNCHANGED now

\* axios.request({...}) without the prefetch option
IssueRequest ==
    /\ Issued < MaxReq
    /\ CommitPrefetcher(Made(handleRequest([Prefetcher EXCEPT !.cache = Sweep(@, now)],
                                           now), pcache))
    /\ UNCHANGED now

\* A network call completes; the job queue then runs the continuations
Deliver(c, status) ==
    /\ Ready(Prefetcher) = {}
    /\ c \in DOMAIN calls
    /\ calls[c].status = "pending"
    /\ CommitPrefetcher(Settle([Prefetcher EXCEPT !.calls[c].status = status]))
    /\ UNCHANGED now

\* The job queue after requests were answered from completed calls
RunJobs ==
    /\ Ready(Prefetcher) # {}
    /\ CommitPrefetcher(Settle(Prefetcher))
    /\ UNCHANGED now

\* Time passes between two tasks
Tick ==
    /\ Ready(Prefetcher) = {}
    /\ now + Step <= MaxTime
    /\ now' = now + Step
    /\ UNCHANGED <<pcache, calls, preqs>>

\* The prefetch options of the model: '1s', ['1s', '5s'], ['1s', '1500ms']
\* and an object, which getTimeParams does not read
PrefetchOptions ==
    {[form |-> "string", ttl |-> Duration(1, "s"), stale |-> Duration(0, "ms")],
     [form |-> "array", ttl |-> Duration(1, "s"), stale |-> Duration(5, "s")],
     [form |-> "array", ttl |-> Duration(1, "s"), stale |-> Duration(1500, "ms")],
     [form |-> "object", ttl |-> Duration(1, "m"), stale |-> Duration(5, "m")]}

InitPrefetch ==
    /\ now = 0
    /\ pcache = <<>>
    /\ calls = <<>>
    /\ preqs = <<>>

(***************************************************************************)
(* The form helper (form.ts)                                               *)
(***************************************************************************)
VARIABLES
    form,       \* the form's own data properties: key -> value
    defaults,   \* form._defaults: key -> value
    lastForm    \* the last call made on the form

fVars == <<form, defaults, lastForm>>

\* proxyUnwrap(data): a copy of arrays and plain objects, level by level
RECURSIVE proxyUnwrap(_)
proxyUnwrap(data) ==
    IF data.t = "array" THEN Arr([i \in DOMAIN data.s |-> proxyUnwrap(data.s[i])])
    ELSE IF data.t = "object" THEN Obj([k \in DOMAIN data.f |-> proxyUnwrap(data.f[k])])
    ELSE data

\* proxyWrap(data, handler): a copy as well, its nested objects behind proxies
\* that run the set handler
RECURSIVE proxyWrap(_)
proxyWrap(data) ==
    IF data.t = "array" THEN Arr([i \in DOMAIN data.s |-> proxyWrap(data.s[i])])
    ELSE IF data.t = "object" THEN Obj([k \in DOMAIN data.f |-> proxyWrap(data.f[k])])
    ELSE data

\* Object.assign(this, source), for the data properties
Assign(target, source) == source.f @@ target

\* data(): the keys of _defaults, read from the form and unwrapped
FormData(fields, dflt) ==
    Obj([key \in DOMAIN dflt |->
            proxyUnwrap(IF key \in DOMAIN fields THEN fields[key] ELSE Undefined)])

\* get isDirty()
IsDirtyOf(fields, dflt) == ~isEqual(FormData(fields, dflt), Obj(dflt))
isDirty == IsDirtyOf(form, defaults)

FormCall(op, key, value) == [op |-> op, key |-> key, value |-> value]

\* reset(...fields)
Reset(fields) ==
    LET data == IF fields # {}
                THEN Obj([key \in DOMAIN defaults \cap fields |-> defaults[key]])
                ELSE Obj(defaults)
    IN /\ form' = Assign(form, proxyWrap(data))
       /\ lastForm' = FormCall(IF fields = {} THEN "reset" ELSE "resetFields", "", Undefined)
       /\ UNCHANGED defaults

\* form[key] = value, through the proxy's set handler
SetField(key, value) ==
    /\ form' = (key :> value) @@ form
    /\ lastForm' = FormCall("assign", key, value)
    /\ UNCHANGED defaults

\* form[key][inner] = value, through the nested proxy's set handler
SetInner(key, inner, value) ==
    /\ key \in DOMAIN form
    /\ form[key].t = "object"
    /\ form' = [form EXCEPT ![key] = SetProp(@, inner, value)]
    /\ lastForm' = FormCall("assign", key, form'[key])
    /\ UNCHANGED defaults

\* defaults(): the baseline is taken again from the current fields
DefaultsFromFields ==
    LET field == proxyUnwrap(Obj([key \in DOMAIN defaults |->
                    IF key \in DOMAIN form THEN form[key] ELSE Undefined]))
    IN /\ defaults' = field.f @@ defaults
       /\ lastForm' = FormCall("defaults", "", Undefined)
       /\ UNCHANGED form

\* defaults(field, value)
DefaultsOf(key, value) ==
    /\ defaults' = (key :> value) @@ defaults
    /\ lastForm' = FormCall("defaultsOf", key, value)
    /\ UNCHANGED form

\* new Form(initial, handler): _defaults = initial, then reset()
Constructed(initial) ==
    /\ defaults = initial
    /\ form = Assign(<<>>, proxyWrap(Obj(initial)))
    /\ lastForm = FormCall("new", "", Undefined)

\* The fields of the model and the values they take
FormKeys == {"name", "meta"}
FormValues ==
    {Str("a"), Str("b"), NaN, JNull,
     Obj([a |-> Num("1")]), Obj([b |-> Undefined]), Arr(<<Num("1")>>)}
Initials ==
    {[name |-> n, meta |-> m] : n \in {Str("a"), NaN}, m \in {Obj([a |-> Num("1")]), JNull}}

IdleForm == Constructed([name |-> Str("a"), meta |-> JNull])

(***************************************************************************)
(* Submitting a form (form.ts request, transform)                          *)
(***************************************************************************)
MaxSubmit == 2
MaxClock == 3000
\* The delay of the recentlySuccessful timer
RecentlyFor == 2000

VARIABLES
    clock,      \* the time, in ms
    flags,      \* processing, wasSuccessful, recentlySuccessful, errors,
                \* _recentlySuccessfulTimeout (0 for null) and _transform
    timers,     \* the timers made by setTimeout, by handle
    sent,       \* the requests made by request(), in order, with the time
                \* at which an error-free response arrived and whether no
                \* other request was pending when it was made
    installs    \* the transform calls, each with the number of requests
                \* made before it

subVars == <<clock, flags, timers, sent, installs>>

Second == durationToMs(Duration(1, "s"))

\* useForm.resolveErrors as the inertia extension installs it
resolveErrors(response) ==
    LET errors == PropOf(PropOf(PropOf(response, "data"), "props"), "errors")
    IN IF errors \in {Undefined, JNull} THEN Obj(NoFields) ELSE errors

\* clearTimeout(handle)
ClearTimeout(table, handle) ==
    IF handle \in DOMAIN table THEN [table EXCEPT ![handle].live = FALSE] ELSE table

\* The payload of a submission: this._transform || this.data()
Payload(state, fields, dflt) == OrElse(state.transform, FormData(fields, dflt))

\* transform(fn): _transform = fn(this.data())
Transform(payload) ==
    /\ Len(installs) < MaxSubmit
    /\ flags' = [flags EXCEPT !.transform = payload]
    /\ installs' = Append(installs, [payload |-> payload, before |-> Len(sent)])
    /\ UNCHANGED <<clock, timers, sent>>

\* request(options), up to the call of axios.request
Request ==
    /\ Len(sent) < MaxSubmit
    /\ timers' = IF flags.timeout # 0 THEN ClearTimeout(timers, flags.timeout) ELSE timers
    /\ flags' = [flags EXCEPT !.wasSuccessful = FALSE, !.processing = TRUE]
    /\ sent' = Append(sent, [data |-> Payload(flags, form, defaults),
                             status |-> "pending", settled |-> 0,
                             alone |-> \A i \in DOMAIN sent : sent[i].status # "pending"])
    /\ UNCHANGED <<clock, installs>>

\* The handlers of then and finally, run when the call settles: a rejected
\* call skips the handler of then
Then(state, table, response, time) ==
    LET errors == resolveErrors(response)
    IN IF KeyCount(errors) = 0
       THEN [state |-> [state EXCEPT !.errors = errors, !.wasSuccessful = TRUE,
                                     !.recentlySuccessful = TRUE,
                                     !.timeout = Len(table) + 1],
             timers |-> Append(table, [due |-> time + RecentlyFor, live |-> TRUE])]
       ELSE [state |-> [state EXCEPT !.errors = errors], timers |-> table]
FinallyKeepsProcessing(state) == [state EXCEPT !.transform = Undefined]
Finally(state) == [state EXCEPT !.transform = Undefined, !.processing = FALSE]

Settled(i, ending) ==
    /\ i \in DOMAIN sent
    /\ sent[i].status = "pending"
    /\ LET after == IF ending.status = "rejected"
                    THEN [state |-> flags, timers |-> timers]
                    ELSE Then(flags, timers, ending.response, clock)
       IN /\ flags' = Finally(after.state)
          /\ timers' = after.timers
    /\ sent' = [sent EXCEPT ![i].status = ending.status,
                            ![i].settled = IF ending.status = "ok" THEN clock ELSE 0]
    /\ UNCHANGED <<clock, installs>>

\* The timer's callback
Fire(handle) ==
    /\ handle \in DOMAIN timers
    /\ timers[handle].live
    /\ timers[handle].due <= clock
    /\ timers' = [timers EXCEPT ![handle].live = FALSE]
    /\ flags' = [flags EXCEPT !.recentlySuccessful = FALSE]
    /\ UNCHANGED <<clock, sent, installs>>

\* Time passes; a timer that is due runs first
Pass ==
    /\ \A handle \in DOMAIN timers : timers[handle].live => timers[handle].due > clock
    /\ clock + Second <= MaxClock
    /\ clock' = clock + Second
    /\ UNCHANGED <<flags, timers, sent, installs>>

\* How a submission ends: a response without errors, a response with
\* validation errors (which resolves the call), or a rejection
Outcomes ==
    {[status |-> "ok", response |-> Obj("data" :> MkPage("/x", Obj("list" :> List(<<N1>>)),
                                                         NoFields))],
     [status |-> "errors",
      response |-> Obj("data" :> MkPage("/x", Obj("errors" :> Obj("name" :> Str("taken"))),
                                        NoFields))],
     [status |-> "rejected", response |-> Undefined]}

\* The payload transform installs
Payloads == {Obj("name" :> Str("t1"))}

InitSubmit ==
    /\ clock = 0
    /\ flags = [processing |-> FALSE, wasSuccessful |-> FALSE, recentlySuccessful |-> FALSE,
                errors |-> Obj(NoFields), timeout |-> 0, transform |-> Undefined]
    /\ timers = <<>>
    /\ sent = <<>>
    /\ installs = <<>>

(***************************************************************************)
(* Remembered state (remember.ts useRemember, form.ts useForm)             *)
(***************************************************************************)
VARIABLES
    remembered, \* the state of the proxy useRemember returned; undefined
                \* before the call
    tracked,    \* the paths, from the state, of the objects that are behind a
                \* proxy running the set handler (<<>> is the state itself)
    lastUse     \* the call that made the proxy, with the table it found, and
                \* whether the last assignment ran the subscribers

remVars == <<remembered, tracked, lastUse>>

\* data = key ? (cache.get(key) || data) : data
SeedInitial(table, key, data) == data
Seed(table, key, data) ==
    IF key # "" /\ key \in DOMAIN table THEN OrElse(table[key], data) ELSE data

\* The subscriber of useRemember: cache.set(key, proxyUnwrap(remember))
Store(table, key, state) == (key :> proxyUnwrap(state)) @@ table

\* The objects inside proxyWrap(data, handler) that are proxies, by path: the
\* object-valued properties of an object, level by level; the elements of an
\* array are mapped through proxyWrap and put behind no proxy themselves
RECURSIVE ProxiedInside(_)
ProxiedInside(data) ==
    LET under(k) == {<<k>> \o q : q \in ProxiedInside(Fields(data)[k])}
    IN CASE data.t = "array" -> UNION {under(k) : k \in DOMAIN Fields(data)}
         [] data.t = "object" ->
                UNION {IF IsObjectLike(data.f[k]) THEN {<<k>>} \cup under(k) ELSE {} :
                        k \in DOMAIN data.f}
         [] OTHER -> {}

\* new Proxy(proxyWrap(data, handler), handler)
Wrapped(data) == {<<>>} \cup ProxiedInside(data)

\* The paths at or under the path p
Under(paths, p) == {q \in paths : Len(q) >= Len(p) /\ SubSeq(q, 1, Len(p)) = p}

\* o[key] for the keys of a path, and o[k1][k2]... = value
RECURSIVE ValueAt(_, _)
ValueAt(v, path) ==
    IF path = <<>> THEN v ELSE ValueAt(PropOf(v, Head(path)), Tail(path))
SetKey(o, key, v) ==
    IF o.t = "array" THEN Arr([o.s EXCEPT ![IndexOf(key, Len(o.s))] = v])
    ELSE SetProp(o, key, v)
RECURSIVE AssignPath(_, _, _)
AssignPath(o, path, value) ==
    IF Len(path) = 1 THEN SetKey(o, path[1], value)
    ELSE SetKey(o, Head(path), AssignPath(PropOf(o, Head(path)), Tail(path), value))

\* store.set(proxy, changed): the old and the new state are the one proxy, so
\* subscribers run when changed is set or isEqual fails on the proxy itself
Notified(state, changed) == changed \/ ~isEqual(state, state)

\* useRemember(data, key)
UseRemember(data, key) ==
    /\ remembered = Undefined
    /\ remembered' = proxyWrap(Seed(cache, key, data))
    /\ tracked' = Wrapped(remembered')
    /\ cache' = Store(cache, key, remembered')
    /\ lastUse' = [op |-> "useRemember", key |-> key, initial |-> data, table |-> cache,
                   notified |-> FALSE]

\* useForm(data, rememberKey): the form is constructed from data, then
\* filled from the remembered data and given the remembered errors; the set
\* handler copies data() and errors back into the remembered state
UseForm(data, key) ==
    LET seed == Seed(cache, key, Obj(("data" :> data) @@ ("errors" :> Obj(NoFields))))
        filled == Assign(Assign(NoFields, proxyWrap(data)), proxyWrap(PropOf(seed, "data")))
        state == Obj(("data" :> FormData(filled, data.f)) @@ ("errors" :> PropOf(seed, "errors")))
    IN /\ remembered = Undefined
       /\ defaults' = data.f
       /\ form' = filled
       /\ lastForm' = FormCall("fill", "", Undefined)
       /\ flags' = [flags EXCEPT !.errors = PropOf(seed, "errors")]
       /\ remembered' = state
       /\ tracked' = {}
       /\ cache' = Store(cache, key, state)
       /\ lastUse' = [op |-> "useForm", key |-> key, initial |-> data, table |-> cache,
                      notified |-> FALSE]

\* proxy[key] = value: the set handler of createProxy
SetRemembered(key, value) ==
    /\ lastUse.op = "useRemember"
    /\ LET changed == ~StrictEq(PropOf(remembered, key), value) \/ IsObjectLike(value)
           state == SetProp(remembered, key, value)
       IN /\ remembered' = state
          /\ tracked' = tracked \ Under(tracked, <<key>>)
          /\ cache' = IF Notified(state, changed) THEN Store(cache, lastUse.key, state)
                      ELSE cache
          /\ lastUse' = [lastUse EXCEPT !.notified = Notified(state, changed)]

\* proxy[key][inner] = value: the set handler runs when proxy[key] is one of
\* the nested proxies, and does not when it is an object assigned later
SetNested(key, inner, value) ==
    /\ lastUse.op = "useRemember"
    /\ PropOf(remembered, key).t = "object"
    /\ LET changed == ~StrictEq(PropOf(PropOf(remembered, key), inner), value)
           state == SetProp(remembered, key, SetProp(PropOf(remembered, key), inner, value))
       IN /\ remembered' = state
          /\ cache' = IF <<key>> \in tracked /\ Notified(state, changed)
                      THEN Store(cache, lastUse.key, state)
                      ELSE cache
          /\ lastUse' = [lastUse EXCEPT
                            !.notified = <<key>> \in tracked /\ Notified(state, changed)]
    /\ UNCHANGED tracked

\* proxy[k1]...[kn] = value for a property that exists: the set handler runs
\* when the object assigned to is one of the proxies
AssignAt(path, value) ==
    /\ lastUse.op = "useRemember"
    /\ path # <<>>
    /\ LET holder == ValueAt(remembered, SubSeq(path, 1, Len(path) - 1))
           key == path[Len(path)]
       IN /\ key \in DOMAIN Fields(holder)
          /\ LET handled == SubSeq(path, 1, Len(path) - 1) \in tracked
                 changed == ~StrictEq(PropOf(holder, key), value) \/ IsObjectLike(value)
                 state == AssignPath(remembered, path, value)
             IN /\ remembered' = state
                /\ tracked' = tracked \ Under(tracked, path)
                /\ cache' = IF handled /\ Notified(state, changed)
                            THEN Store(cache, lastUse.key, state)
                            ELSE cache
                /\ lastUse' = [lastUse EXCEPT
                                  !.notified = handled /\ Notified(state, changed)]

\* The values of the model: a list state with a filter object and a page
\* number, and the entries an earlier visit left in the table
Filters(q, n) == Obj(("filters" :> Obj("q" :> Str(q))) @@ ("page" :> Num(n)))
PersistedForm ==
    Obj(("data" :> Obj(("name" :> Str("b")) @@ ("meta" :> JNull)))
        @@ ("errors" :> Obj("name" :> Str("taken"))))
Tables == {NoFields, ("list" :> Filters("p", "2")) @@ ("form" :> PersistedForm)}

\* A state with an object inside an object, an array of strings and an array
\* of objects, and the assignments made to it
DeepState ==
    Obj(("filters" :> Obj("range" :> Obj("min" :> Str("a"))))
        @@ ("tags" :> Arr(<<Str("a"), Str("b")>>))
        @@ ("rows" :> Arr(<<Obj("name" :> Str("a"))>>))
        @@ ("page" :> Str("a")))
DeepPaths ==
    {<<"page">>, <<"filters", "range", "min">>, <<"tags", "0">>, <<"tags", "1">>,
     <<"rows", "0", "name">>}

InitRemember ==
    /\ remembered = Undefined
    /\ tracked = {}
    /\ lastUse = [op |-> "none", key |-> "", initial |-> Undefined, table |-> NoFields,
                  notified |-> FALSE]

(***************************************************************************)
(* Polling (server.ts usePoll)                                             *)
(***************************************************************************)
MaxTicks == 12
MaxStart == 2
MaxPending == 2
\* count % 10 === 0
Throttle == 10

VARIABLES
    hidden,     \* document.hidden
    poll,       \* the closure of one usePoll call: keepAlive, inBackground,
                \* count, id and controller (0 while unassigned), and whether
                \* onvisibilitychange is registered on the document
    intervals,  \* the interval timers that are set
    inflight,   \* the controllers whose reload is in flight and not aborted
    pollLog     \* what has happened so far: made, starts, ticks, the reloads
                \* issued, the ticks since the last reload (quiet), the ticks
                \* since the last reload or visibility change (calm), and
                \* whether stop() was the last of start() and stop()

pollVars == <<hidden, poll, intervals, inflight, pollLog>>

NoPoll ==
    [keepAlive |-> FALSE, inBackground |-> FALSE, count |-> 0, id |-> 0,
     controller |-> 0, listening |-> FALSE]

\* function start(): the listener is added (adding the same function again
\* changes nothing) and id is overwritten with a new interval
StartOn(p, log) == [p EXCEPT !.listening = TRUE, !.id = log.starts + 1]

\* usePoll(interval, config): the closure, and start() under autoStart
UsePoll(keepAlive, autoStart) ==
    /\ ~pollLog.made
    /\ LET p == [NoPoll EXCEPT !.keepAlive = keepAlive, !.inBackground = hidden]
       IN IF autoStart
          THEN /\ poll' = StartOn(p, pollLog)
               /\ intervals' = intervals \cup {pollLog.starts + 1}
               /\ pollLog' = [pollLog EXCEPT !.made = TRUE, !.starts = @ + 1]
          ELSE /\ poll' = p
               /\ pollLog' = [pollLog EXCEPT !.made = TRUE]
               /\ UNCHANGED intervals
    /\ UNCHANGED <<hidden, inflight>>

\* the returned start()
Start ==
    /\ pollLog.made
    /\ pollLog.starts < MaxStart
    /\ poll' = StartOn(poll, pollLog)
    /\ intervals' = intervals \cup {pollLog.starts + 1}
    /\ pollLog' = [pollLog EXCEPT !.starts = @ + 1, !.stopped = FALSE]
    /\ UNCHANGED <<hidden, inflight>>

\* the returned stop(): clearInterval(id), controller?.abort(), and the
\* listener removed
Stop ==
    /\ pollLog.made
    /\ intervals' = intervals \ {poll.id}
    /\ inflight' = inflight \ {poll.controller}
    /\ poll' = [poll EXCEPT !.listening = FALSE]
    /\ pollLog' = [pollLog EXCEPT !.stopped = TRUE]
    /\ UNCHANGED hidden

\* keepAlive || !inBackground || count !== 0 && count % 10 === 0
ShouldReload(p) ==
    p.keepAlive \/ ~p.inBackground \/ (p.count # 0 /\ p.count % Throttle = 0)

\* the callback of setInterval, run for the interval i
IntervalTick(i) ==
    /\ i \in intervals
    /\ pollLog.ticks < MaxTicks
    /\ IF ShouldReload(poll)
       THEN /\ Cardinality(inflight) < MaxPending
            /\ poll' = [poll EXCEPT !.count = 0, !.controller = pollLog.issued + 1]
            /\ inflight' = inflight \cup {pollLog.issued + 1}
            /\ pollLog' = [pollLog EXCEPT !.ticks = @ + 1, !.issued = @ + 1,
                                          !.quiet = 0, !.calm = 0]
       ELSE /\ poll' = [poll EXCEPT !.count = @ + 1]
            /\ pollLog' = [pollLog EXCEPT !.ticks = @ + 1, !.quiet = @ + 1,
                                          !.calm = @ + 1]
            /\ UNCHANGED inflight
    /\ UNCHANGED <<hidden, intervals>>

\* the document goes to the background or comes back; onvisibilitychange
\* runs if it is registered
VisibilityChange ==
    /\ hidden' = ~hidden
    /\ poll' = IF poll.listening
               THEN [poll EXCEPT !.inBackground = ~hidden, !.count = 0]
               ELSE poll
    /\ pollLog' = [pollLog EXCEPT !.calm = 0]
    /\ UNCHANGED <<intervals, inflight>>

\* the reload made with the controller c is answered
Finish(c) ==
    /\ c \in inflight
    /\ inflight' = inflight \ {c}
    /\ UNCHANGED <<hidden, poll, intervals, pollLog>>

InitPoll ==
    /\ hidden = FALSE
    /\ poll = NoPoll
    /\ intervals = {}
    /\ inflight = {}
    /\ pollLog = [made |-> FALSE, starts |-> 0, ticks |-> 0, issued |-> 0, quiet |-> 0,
                 calm |-> 0, stopped |-> FALSE]

(***************************************************************************)
(* Loading when an element becomes visible (dom.ts visible)                *)
(***************************************************************************)
MaxLoads == 3

VARIABLES
    vis,        \* the closure of one visible(node, rawOptions) call: whether
                \* it was made, its options, and whether its observer is
                \* observing the node
    dataset,    \* node.dataset
    inView,     \* whether the node intersects the viewport
    loading,    \* the reloads issued by the observer's callback and not yet
                \* answered
    loads       \* the number of reloads the callback has issued

visVars == <<vis, dataset, inView, loading, loads>>

\* options === true || !options.vortex
\*     ? { buffer: 0, always: true, vortex: options }
\*     : { buffer: 0, always: true, ...options }
VisibleDefaults == Obj(("buffer" :> Num("0")) @@ ("always" :> Bool("true")))
mergeVisibleOptions(options) ==
    IF options = Bool("true") \/ ~Truthy(PropOf(options, "vortex"))
    THEN SetProp(VisibleDefaults, "vortex", options)
    ELSE Spread(VisibleDefaults, options)

\* delete o[key]
DeleteProp(o, key) == Obj([k \in DOMAIN o.f \ {key} |-> o.f[k]])

\* visible(node, rawOptions): the options merged, the observer made and
\* observer.observe(node)
Visible(rawOptions) ==
    /\ ~vis.made
    /\ vis' = [made |-> TRUE, options |-> mergeVisibleOptions(rawOptions),
               observing |-> TRUE]
    /\ UNCHANGED <<dataset, inView, loading, loads>>

\* update(newOptions)
UpdateVisible(newOptions) ==
    /\ vis.made
    /\ vis' = [vis EXCEPT !.options = mergeVisibleOptions(newOptions)]
    /\ UNCHANGED <<dataset, inView, loading, loads>>

\* destroy()
DestroyVisible ==
    /\ vis.made
    /\ vis' = [vis EXCEPT !.observing = FALSE]
    /\ UNCHANGED <<dataset, inView, loading, loads>>

\* node.dataset.fetching = ''
FetchingMarker == Str("")

\* The node enters or leaves the viewport; the observer's callback runs with
\* the entry if the observer is observing the node
Intersect ==
    /\ inView' = ~inView
    /\ IF ~vis.observing \/ ~inView'
       THEN UNCHANGED <<vis, dataset, loading, loads>>
       ELSE /\ vis' = IF ~Truthy(PropOf(vis.options, "always"))
                      THEN [vis EXCEPT !.observing = FALSE]
                      ELSE vis
            /\ IF Truthy(PropOf(dataset, "fetching"))
               THEN UNCHANGED <<dataset, loading, loads>>
               ELSE /\ loads < MaxLoads
                    /\ dataset' = SetProp(dataset, "fetching", FetchingMarker)
                    /\ loading' = loading \cup {loads + 1}
                    /\ loads' = loads + 1

\* The reload i is answered: .then(() => node.dataset.loaded = '') when it
\* succeeded, and .finally(() => delete node.dataset.fetching)
VisibleSettled(i, ok) ==
    /\ i \in loading
    /\ loading' = loading \ {i}
    /\ dataset' = DeleteProp(IF ok THEN SetProp(dataset, "loaded", Str("")) ELSE dataset,
                             "fetching")
    /\ UNCHANGED <<vis, inView, loads>>

\* The options given to the action: the default, one load only, and a margin
VisibleOptions ==
    {Bool("true"),
     Obj(("vortex" :> Bool("true")) @@ ("always" :> Bool("false"))),
     Obj(("vortex" :> Bool("true")) @@ ("buffer" :> Num("100")))}

InitVisible ==
    /\ vis = [made |-> FALSE, options |-> Undefined, observing |-> FALSE]
    /\ dataset = Obj(NoFields)
    /\ inView = FALSE
    /\ loading = {}
    /\ loads = 0

(***************************************************************************)
(* pageMutations on its own                                                *)
(***************************************************************************)
VARIABLES
    mOld,       \* the previous page given to pageMutations
    mNew,       \* the incoming page given to pageMutations
    mOut        \* what pageMutations returned (or the TypeError it threw)

mVars == <<mOld, mNew, mOut>>

N3 == Num("3")
N4 == Num("4")

\* The values of the prop "list" in the previous and the incoming page
MergeValues ==
    {List(<<N1, N2>>), List(<<N3, N4>>),
     Obj("x" :> N1), Obj("y" :> N2),
     Obj(("n" :> Obj("x" :> N1)) @@ ("l" :> List(<<N1>>))),
     Obj(("n" :> Obj("y" :> N2)) @@ ("l" :> List(<<N2>>)) @@ ("k" :> N3)),
     N1}
NotStarted == [t |-> "none", p |-> "", s |-> <<>>, f |-> <<>>]

\* A server names a prop in mergeProps or in deepMergeProps, not in both.
MergeRules ==
    {NoFields, "mergeProps" :> Names(<<"list">>), "deepMergeProps" :> Names(<<"list">>)}

InitMerge ==
    /\ mOld \in {MkPage("/x", Obj("other" :> N1), NoFields)}
               \cup {MkPage("/x", Obj(("list" :> v) @@ ("other" :> N1)), NoFields) :
                        v \in MergeValues}
    /\ mNew \in {MkPage("/x", Obj(("list" :> v) @@ ("other" :> N2)), rule) :
                    v \in MergeValues, rule \in MergeRules}
    /\ mOut = NotStarted

IdleMerge ==
    /\ mOld = NotStarted
    /\ mNew = NotStarted
    /\ mOut = NotStarted

ApplyMutations ==
    /\ mOut = NotStarted
    /\ mOut' = pageMutations(mNew, mOld)
    /\ UNCHANGED <<mOld, mNew, sigVars, navVars>>

(***************************************************************************)
(* Specifications                                                          *)
(***************************************************************************)
domVars == <<pollVars, visVars>>
lateVars == <<subVars, remVars, domVars>>
restVars == <<mVars, popVars, pfVars, fVars, lateVars>>
vars == <<sigVars, navVars, errVars, restVars>>

NextSignals ==
    \/ \E e \in EffectIds, p \in Programs :
            Subscribe(e, p) /\ UNCHANGED <<navVars, errVars, restVars>>
    \/ \E c \in SetCalls :
            SetSignal(c.s, c.arg, c.force) /\ UNCHANGED <<navVars, errVars, restVars>>
    \/ \E e \in EffectIds : CallDisposer(e) /\ UNCHANGED <<navVars, errVars, restVars>>
    \/ RunMicrotasks /\ UNCHANGED <<errVars, restVars>>

\* The signal graph under a client that subscribes, writes and disposes
\* The signals just constructed, before createVortex stores a page
Idle == InitBrowser(InitialPage) /\ InitErrors /\ IdlePop /\ InitPrefetch /\ IdleForm /\ InitSubmit /\ InitRemember /\ InitPoll /\ InitVisible
Init == InitGraph(NewGraph(Undefined), {}) /\ Idle /\ IdleMerge
Spec == Init /\ [][NextSignals]_vars

\* The signal graph under a client whose callbacks write signals
NextNested ==
    \/ \E e \in EffectIds, p \in NestedPrograms :
            Subscribe(e, p) /\ UNCHANGED <<navVars, errVars, restVars>>
    \/ \E c \in SetCalls :
            SetSignal(c.s, c.arg, c.force) /\ UNCHANGED <<navVars, errVars, restVars>>
    \/ \E e \in EffectIds : CallDisposer(e) /\ UNCHANGED <<navVars, errVars, restVars>>
    \/ RunMicrotasks /\ UNCHANGED <<errVars, restVars>>
InitNested == InitGraph(NewGraph(Undefined), {}) /\ Idle /\ IdleMerge
SpecNested == InitNested /\ [][NextNested]_vars

\* The signal graph under a client one of whose callbacks calls the disposer
\* of another subscription
NextDisposing ==
    \/ \E e \in EffectIds, p \in DisposingPrograms :
            Subscribe(e, p) /\ UNCHANGED <<navVars, errVars, restVars>>
    \/ \E c \in SetCalls :
            SetSignal(c.s, c.arg, c.force) /\ UNCHANGED <<navVars, errVars, restVars>>
    \/ \E e \in EffectIds : CallDisposer(e) /\ UNCHANGED <<navVars, errVars, restVars>>
    \/ RunMicrotasks /\ UNCHANGED <<errVars, restVars>>
InitDisposing == InitGraph(NewGraph(Undefined), {}) /\ Idle /\ IdleMerge
SpecDisposing == InitDisposing /\ [][NextDisposing]_vars

\* The requests answered: a marked response under each of the options, and one
\* response without the marker
Answers ==
    {[resp |-> r, config |-> c] : r \in {x \in Responses : x.marker}, c \in Configs}
    \cup {[resp |-> r, config |-> NoOptions] : r \in {x \in Responses : ~x.marker}}

NextNav ==
    \/ \E a \in Answers : OnResponse(a.resp, a.config) /\ UNCHANGED restVars
    \/ \E err \in Errors : ResolveResponseError(err, NoOptions) /\ UNCHANGED restVars
    \/ \E key \in RememberKeys : Remember(key, N1) /\ UNCHANGED <<errVars, restVars>>
    \/ RunMicrotasks /\ UNCHANGED <<errVars, restVars>>

\* The client after createVortex, install(inertia(initialPage)) and the
\* adapter's subscription to the page store, with the window scrolled down
PageSubscriber == [sig |-> "page", kind |-> "plain", ret |-> "undefined"]
BootGraph ==
    LET G == Effect(NewGraph(InitialPage), 1, PageSubscriber)
    IN ResumeAll([G EXCEPT !.microtasks = <<>>], G.microtasks)
InitNav == InitGraph(BootGraph, {1}) /\ Idle /\ IdleMerge
SpecNav == InitNav /\ [][NextNav]_vars

\* A client installed on a page with deferred props: the follow-up reloads
\* are answered in any order, between navigations
DeferredGraph(page) ==
    LET G == Effect(NewGraph(page), 1, PageSubscriber)
    IN ResumeAll([G EXCEPT !.microtasks = <<>>], G.microtasks)
InitDeferred ==
    /\ InitGraph(DeferredGraph(DeferredPage), {1}) /\ InitBrowser(DeferredPage)
    /\ InitErrors /\ IdlePop /\ IdleMerge /\ InitPrefetch /\ IdleForm /\ InitSubmit
    /\ InitRemember /\ InitPoll /\ InitVisible
NextDeferred ==
    \/ \E r \in reloads, url \in {"/x", "/y"}, v \in {N1, N2} :
            AnswerDeferred(r, url, v) /\ UNCHANGED restVars
    \/ \E a \in {x \in Responses : x.marker}, c \in {NoOptions} :
            OnResponse(a, c) /\ UNCHANGED restVars
    \/ RunMicrotasks /\ UNCHANGED <<errVars, restVars>>
SpecDeferred == InitDeferred /\ [][NextDeferred]_vars

\* pageMutations applied to a previous and an incoming page
InitMutations == InitGraph(NewGraph(Undefined), {}) /\ Idle /\ InitMerge
NextMerge == ApplyMutations /\ UNCHANGED <<errVars, popVars, pfVars, fVars, lateVars>>
SpecMerge == InitMutations /\ [][NextMerge]_vars

\* The popstate handler over a session's history, with a page subscriber
PopGraph(page) ==
    LET G == Effect(NewGraph(page), 1, PageSubscriber)
    IN ResumeAll([G EXCEPT !.microtasks = <<>>], G.microtasks)
InitPop ==
    /\ \E page \in {InitialPage, PageAfterOnlyB} :
            InitGraph(PopGraph(page), {1}) /\ InitHistory(page)
    /\ InitErrors /\ IdlePop /\ IdleMerge /\ InitPrefetch /\ IdleForm /\ InitSubmit /\ InitRemember /\ InitPoll /\ InitVisible
NextPop ==
    \/ \E i \in 1..5 : PopState(i) /\ UNCHANGED <<errVars, mVars, pfVars, fVars, lateVars>>
    \/ \E key \in RememberKeys : Remember(key, N1) /\ UNCHANGED <<errVars, restVars>>
    \/ ClearKeys /\ UNCHANGED <<errVars, mVars, pfVars, fVars, lateVars>>
SpecPop == InitPop /\ [][NextPop]_vars

\* A session of pages with encryptHistory, one of them with clearHistory:
\* navigations, remembered state, popstate events and sessionStorage cleared
\* from outside
EncryptedPage(url, extra) ==
    MkPage(url, Obj("list" :> List(<<N1>>)), ("encryptHistory" :> Bool("true")) @@ extra)
SessionPages ==
    {EncryptedPage("/y", "clearHistory" :> Bool("true")), EncryptedPage("/z", NoFields)}
InitSession ==
    /\ InitGraph(PopGraph(EncryptedPage("/x", NoFields)), {1})
    /\ history = <<[state |-> encrypt(makeState(EncryptedPage("/x", NoFields), NoFields),
                                      1, TRUE),
                    url |-> "/x"]>>
    /\ hidx = 1 /\ cache = NoFields /\ jobs = <<>> /\ storage = SessionKeys
    /\ scrollTop = 1 /\ reloads = {} /\ navs = 0 /\ writes = <<>>
    /\ lastNav = [config |-> NoOptions, marker |-> FALSE, incoming |-> Undefined,
                  old |-> Undefined, reconciled |-> Undefined, replace |-> "none"]
    /\ InitErrors /\ IdlePop /\ IdleMerge /\ InitPrefetch /\ IdleForm /\ InitSubmit
    /\ InitRemember /\ InitPoll /\ InitVisible
NextSession ==
    \/ \E data \in SessionPages :
            OnResponse([marker |-> TRUE, data |-> data], NoOptions)
                /\ UNCHANGED <<mVars, warnings, requests, pops, lastPop, pfVars, fVars, lateVars>>
    \/ \E key \in RememberKeys : Remember(key, N1) /\ UNCHANGED <<errVars, restVars>>
    \/ RunMicrotasks
            /\ UNCHANGED <<errVars, mVars, warnings, requests, pops, lastPop, pfVars, fVars, lateVars>>
    \/ \E i \in 1..(MaxNav + 1) :
            PopState(i) /\ UNCHANGED <<errVars, mVars, pfVars, fVars, lateVars>>
    \/ ClearKeys /\ UNCHANGED <<errVars, mVars, pfVars, fVars, lateVars>>
SpecSession == InitSession /\ [][NextSession]_vars

\* The prefetch cache under prefetches and normal requests for one key
InitCache == InitGraph(NewGraph(Undefined), {}) /\ Idle /\ IdleMerge
NextPrefetch ==
    \/ \E prefetch \in PrefetchOptions :
            IssuePrefetch(prefetch) /\ UNCHANGED <<sigVars, navVars, errVars, mVars, popVars, fVars, lateVars>>
    \/ IssueRequest /\ UNCHANGED <<sigVars, navVars, errVars, mVars, popVars, fVars, lateVars>>
    \/ \E c \in 1..(2 * MaxReq), status \in {"ok", "failed"} :
            Deliver(c, status) /\ UNCHANGED <<sigVars, navVars, errVars, mVars, popVars, fVars, lateVars>>
    \/ RunJobs /\ UNCHANGED <<sigVars, navVars, errVars, mVars, popVars, fVars, lateVars>>
    \/ Tick /\ UNCHANGED <<sigVars, navVars, errVars, mVars, popVars, fVars, lateVars>>
SpecPrefetch == InitCache /\ [][NextPrefetch]_vars

\* One form under resets, assignments and new baselines
InitForm ==
    /\ InitGraph(NewGraph(Undefined), {}) /\ InitBrowser(InitialPage)
    /\ InitErrors /\ IdlePop /\ IdleMerge /\ InitPrefetch /\ InitSubmit /\ InitRemember /\ InitPoll /\ InitVisible
    /\ \E initial \in Initials : Constructed(initial)
NextForm ==
    \/ \E fields \in SUBSET FormKeys :
            Reset(fields) /\ UNCHANGED <<sigVars, navVars, errVars, mVars, popVars, pfVars, lateVars>>
    \/ \E key \in FormKeys, value \in FormValues :
            SetField(key, value) /\ UNCHANGED <<sigVars, navVars, errVars, mVars, popVars, pfVars, lateVars>>
    \/ \E key \in FormKeys, value \in {Num("1"), Num("2")} :
            SetInner(key, "a", value) /\ UNCHANGED <<sigVars, navVars, errVars, mVars, popVars, pfVars, lateVars>>
    \/ DefaultsFromFields /\ UNCHANGED <<sigVars, navVars, errVars, mVars, popVars, pfVars, lateVars>>
    \/ \E key \in FormKeys, value \in FormValues :
            DefaultsOf(key, value) /\ UNCHANGED <<sigVars, navVars, errVars, mVars, popVars, pfVars, lateVars>>
SpecForm == InitForm /\ [][NextForm]_vars

\* Submissions of one form, with transform calls, field assignments and time
outerVars == <<sigVars, navVars, errVars, mVars, popVars, pfVars>>
InitSubmissions == InitGraph(NewGraph(Undefined), {}) /\ Idle /\ IdleMerge
NextSubmit ==
    \/ Request /\ UNCHANGED <<outerVars, fVars, remVars, domVars>>
    \/ \E i \in 1..(MaxSubmit + 1), ending \in Outcomes :
            Settled(i, ending) /\ UNCHANGED <<outerVars, fVars, remVars, domVars>>
    \/ \E payload \in Payloads : Transform(payload) /\ UNCHANGED <<outerVars, fVars, remVars, domVars>>
    \/ SetField("name", Str("b")) /\ UNCHANGED <<outerVars, subVars, remVars, domVars>>
    \/ \E handle \in 1..(MaxSubmit + 1) : Fire(handle) /\ UNCHANGED <<outerVars, fVars, remVars, domVars>>
    \/ Pass /\ UNCHANGED <<outerVars, fVars, remVars, domVars>>
SpecSubmit == InitSubmissions /\ [][NextSubmit]_vars

\* One remembered state, or one form with a remember key, made over a table
\* that is empty or holds the entries of an earlier visit
tableFrame == <<sigVars, history, hidx, jobs, storage, scrollTop, reloads, navs, lastNav,
                writes, errVars, mVars, popVars, pfVars>>
InitRemembering ==
    /\ InitGraph(NewGraph(Undefined), {})
    /\ \E table \in Tables : InitBrowserWith(InitialPage, table)
    /\ InitErrors /\ IdlePop /\ IdleMerge /\ InitPrefetch /\ IdleForm /\ InitSubmit
    /\ InitRemember /\ InitPoll /\ InitVisible
NextRemember ==
    \/ \E q \in {"a", "b"} :
            UseRemember(Filters(q, "1"), "list")
                /\ UNCHANGED <<tableFrame, fVars, subVars, domVars>>
    \/ \E initial \in Initials :
            UseForm(Obj(initial), "form")
                /\ UNCHANGED <<tableFrame, clock, timers, sent, installs, domVars>>
    \/ \E value \in {Num("1"), Num("2"), Num("3"), NaN,
                      Obj("q" :> Str("a")), Obj("q" :> Str("b"))} :
            SetRemembered(IF value.t = "object" THEN "filters" ELSE "page", value)
                /\ UNCHANGED <<tableFrame, fVars, subVars, domVars>>
    \/ \E key \in {"filters", "page"}, q \in {"a", "b", "c"} :
            SetNested(key, "q", Str(q)) /\ UNCHANGED <<tableFrame, fVars, subVars, domVars>>
SpecRemember == InitRemembering /\ [][NextRemember]_vars

\* One remembered state with nested objects and arrays under assignments at
\* every depth
InitDeep == InitGraph(NewGraph(Undefined), {}) /\ Idle /\ IdleMerge
NextDeep ==
    \/ UseRemember(DeepState, "list") /\ UNCHANGED <<tableFrame, fVars, subVars, domVars>>
    \/ \E path \in DeepPaths, value \in {Str("a"), Str("b"), Str("c")} :
            AssignAt(path, value) /\ UNCHANGED <<tableFrame, fVars, subVars, domVars>>
SpecDeep == InitDeep /\ [][NextDeep]_vars

\* One usePoll call under its start and stop, the interval, visibility changes
\* and the answers to its reloads
InitPolling == InitGraph(NewGraph(Undefined), {}) /\ Idle /\ IdleMerge
NextPoll ==
    \/ \E keepAlive \in BOOLEAN, autoStart \in BOOLEAN :
            UsePoll(keepAlive, autoStart) /\ UNCHANGED <<outerVars, fVars, subVars, remVars, visVars>>
    \/ Start /\ UNCHANGED <<outerVars, fVars, subVars, remVars, visVars>>
    \/ Stop /\ UNCHANGED <<outerVars, fVars, subVars, remVars, visVars>>
    \/ \E i \in 1..(MaxStart + 1) :
            IntervalTick(i) /\ UNCHANGED <<outerVars, fVars, subVars, remVars, visVars>>
    \/ VisibilityChange /\ UNCHANGED <<outerVars, fVars, subVars, remVars, visVars>>
    \/ \E c \in 1..(MaxTicks + 1) : Finish(c) /\ UNCHANGED <<outerVars, fVars, subVars, remVars, visVars>>
SpecPoll == InitPolling /\ [][NextPoll]_vars

\* One element under the visible action, scrolled in and out of the viewport
\* while its reloads are answered
InitVisibility == InitGraph(NewGraph(Undefined), {}) /\ Idle /\ IdleMerge
NextVisible ==
    \/ \E rawOptions \in VisibleOptions :
            Visible(rawOptions) /\ UNCHANGED <<outerVars, fVars, subVars, remVars, pollVars>>
    \/ \E newOptions \in VisibleOptions :
            UpdateVisible(newOptions) /\ UNCHANGED <<outerVars, fVars, subVars, remVars, pollVars>>
    \/ DestroyVisible /\ UNCHANGED <<outerVars, fVars, subVars, remVars, pollVars>>
    \/ Intersect /\ UNCHANGED <<outerVars, fVars, subVars, remVars, pollVars>>
    \/ \E i \in 1..(MaxLoads + 1), ok \in BOOLEAN :
            VisibleSettled(i, ok) /\ UNCHANGED <<outerVars, fVars, subVars, remVars, pollVars>>
SpecVisible == InitVisibility /\ [][NextVisible]_vars

(***************************************************************************)
(* Properties of the signal graph                                          *)
(***************************************************************************)
\* The step is a call of signal.set
IsSetStep == ops' = ops + 1 /\ last'.type = "set"
\* The step is a call made by the client (not the job queue)
IsCallStep == ops' # ops \/ created' # created

\* "identical": the same primitive, NaN being identical to nothing
Identical(a, b) == a = b /\ a.p # "NaN"

\* The value the call of the step asks for
Asked == IF last'.arg.fn = "keep" THEN val[last'.s] ELSE last'.arg.v

Count(x, seq) == Cardinality({i \in DOMAIN seq : seq[i] = x})
Dependents(s) == {e \in EffectIds : regs[s][e] > 0}
FlushesOf(e, k) == {i \in DOMAIN flushed : flushed[i].e = e /\ flushed[i].k = k}
ReturnsCleanup(e) == prog[e].kind # "throw" /\ prog[e].ret = "fn"

\* C1: with the default predicate, an unforced set to a value identical to
\* the current one runs no subscriber and keeps the value; a set to a
\* different value runs every subscriber the signal has exactly once; so the
\* second of two successive set(x) runs nothing.
C1_SetNotifiesOncePerChange ==
    [][IsSetStep =>
        LET s == last'.s IN
        /\ (~last'.force /\ Identical(val[s], Asked)) =>
                /\ last'.ran = <<>>
                /\ runs' = runs
                /\ val'[s] = val[s]
        /\ ~Identical(val[s], Asked) =>
                /\ val'[s] = Asked
                /\ \A e \in EffectIds :
                      Count(e, last'.ran) = IF e \in Range(subs[s]) THEN 1 ELSE 0
        /\ (/\ last.type = "set" /\ last.s = s /\ last.arg = last'.arg
            /\ last'.arg.fn = "" /\ ~last'.force
            /\ Identical(last'.arg.v, last'.arg.v)) => last'.ran = <<>>
      ]_vars

\* C1 witness: a second unforced set of the same value, on a signal that has
\* a subscriber the first set has run, runs nothing.
C1_Witness ==
    /\ last.type = "set" /\ ~last.force /\ last.arg.fn = ""
    /\ last.ran = <<>>
    /\ last.arg.v = val[last.s]
    /\ \E e \in Range(subs[last.s]) : runs[e] >= 2

\* C2: a set that changes the value has, when it returns, run every
\* dependent the signal had at the write, in the order of their
\* registrations; nothing runs a callback later, from the job queue.
C2_SynchronousInRegistrationOrder ==
    [][/\ (IsSetStep /\ (last'.force \/ ~Identical(val[last'.s], Asked))) =>
            LET s == last'.s
                ran == last'.ran
            IN /\ Range(ran) = Dependents(s)
               /\ Len(ran) = Cardinality(Dependents(s))
               /\ \A i, j \in DOMAIN ran : i < j => regs[s][ran[i]] < regs[s][ran[j]]
               /\ \A e \in Dependents(s) : runs'[e] = runs[e] + 1
       /\ ~IsCallStep => runs' = runs
      ]_vars

\* C2 witness: a set has run two dependents, the one created later first,
\* because the earlier one registered again since.
C2_Witness ==
    /\ last.type = "set"
    /\ Len(last.ran) = 2
    /\ last.ran[1] > last.ran[2]

\* C3: after every run a computation is a dependent of exactly the signals
\* it read in that run, so a changing write to a signal re-runs exactly the
\* computations whose last run read it.
DependsOn(e) == {s \in Signals : e \in Range(subs[s])}
C3_DependenciesAreLastReads ==
    [][/\ \A e \in created' : live'[e] => {s \in Signals : e \in Range(subs'[s])} = reads'[e]
       /\ (IsSetStep /\ (last'.force \/ ~Identical(val[last'.s], Asked))) =>
            \A e \in created : live[e] => (e \in Range(last'.ran) <=> last'.s \in reads[e])
      ]_vars

\* C3 witness: a conditional computation that moved from B to A was not run
\* by a changing write to B.
C3_Witness ==
    \E e \in created :
        /\ prog[e].kind = "cond" /\ live[e]
        /\ runs[e] >= 2
        /\ reads[e] = {"C", "A"}
        /\ last.type = "set" /\ last.s = "B" /\ last.arg.v = Num("1")
        /\ val["B"] = Num("1")
        /\ e \notin Range(last.ran)

\* C4: once run k+1 of a computation has started, the cleanup run k
\* returned has been invoked exactly once, and was invoked before that run.
C4_CleanupBeforeNextRun ==
    \A e \in created : \A k \in 1..(runs[e] - 1) :
        ReturnsCleanup(e) =>
            /\ Cardinality(FlushesOf(e, k)) = 1
            /\ \A i \in FlushesOf(e, k) : flushed[i].runsThen = k

\* C5: calls of a disposer never throw, and all calls of it together invoke
\* a cleanup at most once.
C5_DisposerIdempotent ==
    /\ last.type = "dispose" => ~last.escaped
    /\ \A e \in created : \A k \in 1..runs[e] :
          Cardinality({i \in FlushesOf(e, k) : flushed[i].by = "disposer"}) <= 1

\* C6: a dependent that throws during a pass does not make set throw and
\* does not keep any other dependent from being run in that pass.
C6_ThrowingDependentIsContained ==
    [][(/\ IsSetStep
        /\ last'.force \/ ~Identical(val[last'.s], Asked)
        /\ \E e \in Dependents(last'.s) : prog[e].kind = "throw") =>
            /\ ~last'.escaped
            /\ \A e \in Dependents(last'.s) : e \in Range(last'.ran) /\ runs'[e] > runs[e]
      ]_vars

\* C6 witness: a pass ran a throwing dependent and then another dependent.
C6_Witness ==
    /\ last.type = "set" /\ ~last.escaped
    /\ Len(last.ran) = 2
    /\ prog[last.ran[1]].kind = "throw"
    /\ prog[last.ran[2]].kind = "plain"
    /\ runs[last.ran[2]] >= 2

(***************************************************************************)
(* Properties of the page store and of reconciliation                      *)
(***************************************************************************)
\* The step is resolveResponse reconciling a protocol response
IsReconcileStep ==
    /\ navs' = navs + 1
    /\ lastNav'.marker
    /\ lastNav'.reconciled # Undefined
    /\ ~IsThrown(lastNav'.reconciled)

\* Two payloads have the same keys and the same values, recursively
SamePayload(a, b) == a = b

\* C7: page.set(p) runs no subscriber of the page store exactly when p has
\* the same keys and values, recursively, as the current page; a payload
\* that differs replaces the current page and runs the subscribers.
C7_PageSetSkipsExactlyEqualPayloads ==
    [][(IsReconcileStep /\ subs["page"] # <<>>) =>
        LET p == lastNav'.reconciled IN
        /\ SamePayload(p, val["page"]) <=> last'.ran = <<>>
        /\ ~SamePayload(p, val["page"]) =>
                /\ val'["page"] = p
                /\ Range(last'.ran) = Range(subs["page"])
      ]_vars

\* The names a page lists under mergeProps or deepMergeProps
NamedIn(page, list) ==
    IF Truthy(PropOf(page, list))
    THEN {PropOf(page, list).s[i].p : i \in DOMAIN PropOf(page, list).s}
    ELSE {}
KeysOf(v) == IF v.t = "object" THEN DOMAIN v.f ELSE {}
\* One level of merging two objects: the keys of both, each with the value
\* inner(k) where both have it, else the value of the one that has it
MergedBy(prev, inc, inner(_)) ==
    [k \in KeysOf(prev) \cup KeysOf(inc) |->
        IF k \in KeysOf(prev) /\ k \in KeysOf(inc) THEN inner(k)
        ELSE IF k \in KeysOf(inc) THEN inc.f[k] ELSE prev.f[k]]
\* The recursive merge of two values, two levels deep
MergedLeaf(a, b) ==
    IF b.t = "array" /\ a.t = "array" THEN Arr(a.s \o b.s) ELSE b
MergedInner(a, b) ==
    IF b.t = "object" /\ a.t = "object"
    THEN Obj(MergedBy(a, b, LAMBDA k : MergedLeaf(a.f[k], b.f[k])))
    ELSE MergedLeaf(a, b)

\* C8: pageMutations gives a prop named in mergeProps the previous array
\* followed by the incoming array, or the previous object with the incoming
\* object's keys laid over it; a prop named in deepMergeProps the recursive
\* merge of previous and incoming; the incoming value when the previous page
\* has none; and leaves a prop named in neither list as it came.
C8_MergeRules ==
    (mOut # NotStarted /\ ~IsThrown(mOut)) =>
        LET prev == PropOf(PropOf(mOld, "props"), "list")
            inc == PropOf(PropOf(mNew, "props"), "list")
            out == PropOf(PropOf(mOut, "props"), "list")
            merge == "list" \in NamedIn(mNew, "mergeProps")
            deep == "list" \in NamedIn(mNew, "deepMergeProps")
        IN /\ (merge /\ prev.t = "array" /\ inc.t = "array") => out = Arr(prev.s \o inc.s)
           /\ (merge /\ prev.t = "object" /\ inc.t = "object") =>
                    out = Obj(MergedBy(prev, inc, LAMBDA k : inc.f[k]))
           /\ (deep /\ prev.t = "array" /\ inc.t = "array") => out = Arr(prev.s \o inc.s)
           /\ (deep /\ prev.t = "object" /\ inc.t = "object") =>
                    out = Obj(MergedBy(prev, inc, LAMBDA k : MergedInner(prev.f[k], inc.f[k])))
           /\ ((merge \/ deep) /\ prev = Undefined) => out = inc
           /\ (~merge /\ ~deep) => out = inc
           /\ PropOf(PropOf(mOut, "props"), "other") = PropOf(PropOf(mNew, "props"), "other")

\* C8 witness: previous [1,2] merged with incoming [3,4] gave [1,2,3,4].
C8_Witness ==
    /\ "list" \in NamedIn(mNew, "mergeProps")
    /\ PropOf(PropOf(mOld, "props"), "list") = List(<<N1, N2>>)
    /\ PropOf(PropOf(mNew, "props"), "list") = List(<<N3, N4>>)
    /\ mOut # NotStarted
    /\ PropOf(PropOf(mOut, "props"), "list") = List(<<N1, N2, N3, N4>>)

\* The keys a request option names
Asks(option) ==
    IF NonEmptyList(option) THEN {option.s[i].p : i \in DOMAIN option.s} ELSE {}
IsPartialStep ==
    /\ IsReconcileStep
    /\ NonEmptyList(lastNav'.config.only) \/ NonEmptyList(lastNav'.config.except)

ExpectReplace(asked) ==
    \/ asked.replaceHistory = Bool("true")
    \/ asked.oldUrl = asked.newUrl /\ asked.replaceHistory # Bool("false")
\* The history calls a step made for the response numbered nav
WritesFor(nav) ==
    SelectSeq(SubSeq(writes', Len(writes) + 1, Len(writes')), LAMBDA w : w.nav = nav)
Methods(ws) == {ws[i].method : i \in DOMAIN ws}

\* C10: a reconciled response that does not preserve history makes one
\* pushState call; when the caller asked for replacement, or the incoming
\* URL is the current one and the caller did not set replaceHistory to
\* false, the call only replaces the current entry; otherwise it pushes one
\* new entry.
C10_ReplaceOrPush ==
    [][/\ (IsReconcileStep /\ ~Truthy(lastNav'.config.preserveHistory)) =>
            /\ Len(jobs') = Len(jobs) + 1
            /\ jobs'[Len(jobs')].nav = navs'
       /\ (jobs # <<>> /\ jobs' = <<>>) =>
            /\ \A i \in DOMAIN jobs :
                  LET ws == WritesFor(jobs[i].nav) IN
                  IF ExpectReplace(jobs[i].asked)
                  THEN Methods(ws) = {"replaceState"}
                  ELSE /\ ws # <<>>
                       /\ ws[Len(ws)].method = "pushState"
                       /\ \A n \in 1..(Len(ws) - 1) : ws[n].method = "replaceState"
            /\ hidx' = hidx + Cardinality({i \in DOMAIN jobs : ~ExpectReplace(jobs[i].asked)})
            /\ Len(history') = hidx'
      ]_vars

\* C10 witness: a response for the current URL whose caller set
\* replaceHistory to false pushed a second entry, after saving the remember
\* table into the first.
C10_Witness ==
    /\ jobs = <<>>
    /\ lastNav.marker
    /\ lastNav.config.replaceHistory = Bool("false")
    /\ PropOf(lastNav.old, "url") = PropOf(lastNav.incoming, "url")
    /\ Len(writes) >= 2
    /\ writes[Len(writes)] = [nav |-> navs, method |-> "pushState", url |-> "/x"]
    /\ writes[Len(writes) - 1].method = "replaceState"
    /\ writes[Len(writes) - 1].nav = navs
    /\ hidx = 2

(***************************************************************************)
(* Properties of the error path                                            *)
(***************************************************************************)
\* The step is resolveResponseError handling the error response of a
\* protocol-enabled call that carries no redirect header
IsErrorStep ==
    /\ navs' = navs + 1
    /\ outcome'.kind = "error"
    /\ outcome'.enabled
    /\ outcome'.location = ""
\* The browser's history and the pending writes to it
HistoryState == <<history, hidx, jobs, writes>>

\* C11: an error response without redirect header that carries the protocol
\* marker goes through the step resolveResponse makes for a success response
\* with the same body; one without the marker leaves the page store as it
\* was and is shown in a dialog.
C11_ErrorResponseReconciledIfTagged ==
    [][IsErrorStep =>
        IF lastNav'.marker
        THEN /\ ResolveResponse([marker |-> TRUE, data |-> lastNav'.incoming], lastNav'.config)
             /\ dialogs' = dialogs
        ELSE /\ val' = val
             /\ last'.ran = last.ran
             /\ runs' = runs
             /\ dialogs' = dialogs + 1
             /\ HistoryState' = HistoryState
      ]_vars

\* C11 witness: a validation error carrying a page put its errors into the
\* page store and ran the subscriber, after an HTML error page had been
\* shown in a dialog.
C11_Witness ==
    /\ outcome.kind = "error"
    /\ lastNav.marker
    /\ PropOf(PropOf(val["page"], "props"), "errors") = Obj("name" :> N1)
    /\ last.ran = <<1>>
    /\ dialogs = 1

C13_RedirectSignal ==
    [][(navs' = navs + 1 /\ outcome'.kind = "error" /\ outcome'.enabled
        /\ outcome'.location # "") =>
            /\ href' = outcome'.location
            /\ val' = val
            /\ runs' = runs
            /\ HistoryState' = HistoryState
            /\ dialogs' = dialogs
            /\ outcome'.settled = "resolved"
      ]_vars

\* C13 witness: a tagged error response with the redirect header sent the
\* browser to /login and left the page and the history entry alone.
C13_Witness ==
    /\ outcome.kind = "error" /\ outcome.location = "/login"
    /\ href = "/login"
    /\ outcome.settled = "resolved"
    /\ lastNav.marker
    /\ val["page"] = lastNav.old
    /\ jobs = <<>> /\ writes = <<>>

(***************************************************************************)
(* Properties of the popstate handler                                      *)
(***************************************************************************)
\* The step is a popstate event for an entry that has a state
IsPopStep == pops' = pops + 1 /\ history[hidx'].state # NullState
\* The entry's state is a buffer that the key and IV held cannot decode
DecodeFails(state) ==
    /\ "cipher" \in DOMAIN state
    /\ ~state.intact \/ state.gen # keyGen \/ ~(SessionKeys \subseteq storage)
\* What a state decodes to
Decoded(state) == IF "cipher" \in DOMAIN state THEN state.cipher ELSE state

\* C14: when the entry of a popstate event cannot be decoded, nothing
\* escapes the handler; it warns once, issues one GET for the entry's URL
\* with preserveScroll and replaceHistory, and leaves the page store, its
\* subscribers and the remember table alone.
C14_DecodeFailureFallsBack ==
    [][(IsPopStep /\ DecodeFails(history[hidx'].state)) =>
            /\ ~lastPop'.escaped
            /\ warnings' = warnings + 1
            /\ requests' = Append(requests,
                    [method |-> "get", url |-> history'[hidx'].url,
                     vortex |-> [preserveScroll |-> TRUE, replaceHistory |-> TRUE]])
            /\ val' = val
            /\ runs' = runs
            /\ cache' = cache
      ]_vars

\* C14 witness: after the keys were cleared, going to the encrypted entry
\* warned and fetched /z, with a remembered value still in the table.
C14_Witness ==
    /\ lastPop.kind = "fallback" /\ lastPop.i = 3
    /\ keyGen = 2
    /\ warnings = 1
    /\ Len(requests) = 1 /\ requests[1].url = "/z"
    /\ cache = ("form" :> N1)

\* C15: after a popstate event whose entry decodes, the remember table
\* holds every key of the entry's snapshot with the snapshot's value, the
\* page store holds the decoded page, and the table held the snapshot when
\* page.set was called.
C15_PopStateRestores ==
    [][(IsPopStep /\ ~DecodeFails(history[hidx'].state)) =>
        LET state == Decoded(history[hidx'].state) IN
        /\ \A k \in DOMAIN state.remember :
                k \in DOMAIN cache' /\ cache'[k] = state.remember[k]
        /\ val'["page"] = state.page
        /\ \A k \in DOMAIN state.remember :
                k \in DOMAIN lastPop'.tableAtSet
                /\ lastPop'.tableAtSet[k] = state.remember[k]
      ]_vars

(***************************************************************************)
(* Claims on the prefetch cache                                            *)
(***************************************************************************)
\* A step in which a client's normal request reaches the adapter
IsRequestStep ==
    /\ Len(preqs') > Len(preqs)
    /\ preqs'[Len(preqs')].kind = "normal"
\* The age of the entry a request finds
AgeNow == now - pcache[Key].timestamp
\* The three answers of the adapter to a normal request that finds entry e
AnsweredFromCache(e) ==
    /\ preqs'[Len(preqs')].source = "cache"
    /\ preqs'[Len(preqs')].call = e.response
    /\ Len(preqs') = Len(preqs) + 1
    /\ calls' = calls
    /\ pcache' = pcache
AnsweredStale(e) ==
    /\ preqs'[Len(preqs')].source = "cache"
    /\ preqs'[Len(preqs')].call = e.response
    /\ Key \notin DOMAIN pcache'
    /\ Len(preqs') = Len(preqs) + 2
    /\ preqs'[Len(preqs) + 1].kind = "revalidate"
    /\ Len(calls') = Len(calls) + 1
    /\ preqs'[Len(preqs) + 1].call = Len(calls')
AnsweredByNetwork ==
    /\ preqs'[Len(preqs')].source = "network"
    /\ Key \notin DOMAIN pcache'
    /\ Len(preqs') = Len(preqs) + 1
    /\ Len(calls') = Len(calls) + 1
    /\ preqs'[Len(preqs')].call = Len(calls')

\* C16: a normal request that finds an entry with ttl 1000 ms is answered
\* from the cached promise without a network call at age 500 ms; at age
\* 1500 ms without a stale duration it makes a network call and the entry
\* is evicted; at age 1500 ms with a stale duration of 5000 ms it is
\* answered from the cached promise, the entry is evicted and exactly one
\* revalidation request is made.
C16_TtlExample ==
    [][(IsRequestStep /\ Key \in DOMAIN pcache /\ pcache[Key].ttl = 1000) =>
        /\ AgeNow = 500 => AnsweredFromCache(pcache[Key])
        /\ (AgeNow = 1500 /\ pcache[Key].stale = 0) => AnsweredByNetwork
        /\ (AgeNow = 1500 /\ pcache[Key].stale = 5000) => AnsweredStale(pcache[Key])]_vars
\* C16 witness: a normal request was answered from a call started 1500 ms
\* earlier while a revalidation request made at the same time is in flight,
\* and another was answered from a call started 500 ms earlier
C16_Witness ==
    /\ \E r, v \in DOMAIN preqs :
          /\ preqs[r].kind = "normal" /\ preqs[r].source = "cache"
          /\ preqs[r].at - calls[preqs[r].call].at = 1500
          /\ preqs[r].found = [ttl |-> 1000, stale |-> 5000]
          /\ preqs[v].kind = "revalidate" /\ preqs[v].at = preqs[r].at
          /\ v = r - 1
    /\ \E r \in DOMAIN preqs :
          /\ preqs[r].kind = "normal" /\ preqs[r].source = "cache"
          /\ preqs[r].at - calls[preqs[r].call].at = 500

\* C17 as stated: fresh while age < ttl, served with a background refresh
\* while ttl <= age < ttl + stale, evicted and fetched otherwise.
C17_FreshnessWindows ==
    [][(IsRequestStep /\ Key \in DOMAIN pcache) =>
        LET e == pcache[Key]
        IN IF AgeNow < e.ttl THEN AnsweredFromCache(e)
           ELSE IF AgeNow < e.ttl + e.stale THEN AnsweredStale(e)
           ELSE AnsweredByNetwork]_vars
\* C17 amended: fresh while age < ttl, served with a background refresh
\* (and evicted) while ttl <= age < stale, the stale duration counting from
\* the entry's creation; evicted and fetched otherwise.
C17_FreshnessWindowsFromCreation ==
    [][(IsRequestStep /\ Key \in DOMAIN pcache) =>
        LET e == pcache[Key]
        IN IF AgeNow < e.ttl THEN AnsweredFromCache(e)
           ELSE IF AgeNow < e.stale THEN AnsweredStale(e)
           ELSE AnsweredByNetwork]_vars
\* C17 witness: a normal request went to the network although the entry of
\* the one prefetch before it was older than its ttl of 1000 ms and younger
\* than its ttl and stale duration of 1500 ms together
C17_Witness ==
    \E r \in DOMAIN preqs, c \in DOMAIN calls :
        /\ preqs[r].kind = "normal" /\ preqs[r].source = "network"
        /\ calls[c].prefetch /\ c < preqs[r].call
        /\ preqs[r].at - calls[c].at = 1500
        /\ r = 2 /\ preqs[1].kind = "prefetch" /\ preqs[1].call = c
        /\ preqs[r].found = [ttl |-> 1000, stale |-> 1500]
        /\ Key \notin DOMAIN pcache

\* A step in which a client's prefetch reaches the adapter
IsPrefetchStep ==
    /\ Len(preqs') > Len(preqs)
    /\ preqs'[Len(preqs')].kind = "prefetch"
\* The prefetches whose network call has not completed
InFlight ==
    {r \in DOMAIN preqs : /\ preqs[r].kind = "prefetch"
                          /\ preqs[r].source = "network"
                          /\ calls[preqs[r].call].status = "pending"}

\* C18: a prefetch made while an earlier prefetch of the same key is in
\* flight makes no network call and waits for the earlier one's call, and
\* prefetches that wait for one call settle with that call's outcome.
C18_ConcurrentPrefetchesCollapse ==
    [][/\ (IsPrefetchStep /\ InFlight # {}) =>
            /\ calls' = calls
            /\ \E r \in InFlight : preqs'[Len(preqs')].call = preqs[r].call
       /\ \A r \in DOMAIN preqs' :
            (preqs'[r].kind = "prefetch" /\ preqs'[r].status = "settled") =>
                preqs'[r].result = calls'[preqs'[r].call].status]_vars

\* C19: the response phase of a prefetch sees the prefetch flag set and the
\* response phase of a normal request sees it cleared.
C19_FlagMatchesRequestKind ==
    \A r \in DOMAIN preqs :
        (preqs[r].result = "ok" /\ preqs[r].kind # "revalidate") =>
            preqs[r].seen = preqs[r].kind

\* C34: a prefetch is answered from the cache only when the entry held for
\* its key is fresh (age < ttl); when the entry is no longer fresh, or there
\* is none, the prefetch makes a new network call and stores a new entry with
\* a new timestamp.
C34_PrefetchServedOnlyWhenFresh ==
    [][IsPrefetchStep =>
        LET r == preqs'[Len(preqs')]
        IN IF Key \in DOMAIN pcache /\ AgeNow < pcache[Key].ttl
           THEN /\ r.source = "cache"
                /\ r.call = pcache[Key].response
                /\ calls' = calls
           ELSE /\ r.source = "network"
                /\ Len(calls') = Len(calls) + 1
                /\ r.call = Len(calls')
                /\ Key \in DOMAIN pcache'
                /\ pcache'[Key].response = Len(calls')
                /\ pcache'[Key].timestamp = now]_vars

\* C36: the failure of a prefetch's network call is not served to later
\* requests: a normal request that finds, within the ttl, the entry of a
\* failed call makes its own network call.
C36_FailedPrefetchIsNotServed ==
    [][(/\ IsRequestStep
        /\ Key \in DOMAIN pcache
        /\ calls[pcache[Key].response].status = "failed"
        /\ AgeNow < pcache[Key].ttl) =>
            LET r == preqs'[Len(preqs')]
            IN /\ r.source = "network"
               /\ Len(calls') = Len(calls) + 1
               /\ r.call = Len(calls')]_vars

(***************************************************************************)
(* Claims on the form helper                                               *)
(***************************************************************************)
\* C20: isDirty is false right after construction and right after reset()
\* without arguments, true right after a field assignment whose value differs
\* from the field's default, and false right after defaults() without
\* arguments.
C20_IsDirty ==
    /\ lastForm.op \in {"new", "reset", "defaults"} => ~isDirty
    /\ (lastForm.op = "assign" /\ lastForm.value # defaults[lastForm.key]) => isDirty

(***************************************************************************)
(* Claims on form submissions                                              *)
(***************************************************************************)
\* The last submission, when no other one was pending at its start
LastAlone(i) == i = Len(sent) /\ sent[i].alone

\* C21: while a submission that overlaps no other one is pending, processing
\* is true and wasSuccessful is false; once it has settled, without errors,
\* with errors or by a rejection, processing is false.
C21_ProcessingWhilePending ==
    \A i \in DOMAIN sent :
        LastAlone(i) =>
            IF sent[i].status = "pending"
            THEN flags.processing /\ ~flags.wasSuccessful
            ELSE ~flags.processing
\* C21 witness: a submission that overlapped no other one was rejected after
\* an earlier one had ended with validation errors
C21_Witness ==
    /\ Len(sent) = 2
    /\ sent[1].status = "errors" /\ sent[1].alone
    /\ sent[2].status = "rejected" /\ sent[2].alone
    /\ ~flags.processing

\* C22: whenever recentlySuccessful is true, an error-free response arrived
\* no more than 2000 ms ago.
C22_RecentlySuccessfulExpires ==
    flags.recentlySuccessful =>
        \E i \in DOMAIN sent : /\ sent[i].status = "ok"
                               /\ clock <= sent[i].settled + RecentlyFor

\* The transform calls made since the last submission was started
Installed == {j \in DOMAIN installs : installs[j].before = Len(sent)}

\* C23: a submission sends the payload of the last transform call made since
\* the submission before it was started, and the data() snapshot when there
\* is no such call.
C23_TransformAppliesOnce ==
    [][Len(sent') = Len(sent) + 1 =>
        sent'[Len(sent')].data =
            IF Installed # {}
            THEN installs[CHOOSE j \in Installed : \A k \in Installed : k <= j].payload
            ELSE FormData(form, defaults)]_vars

\* C33: when one of two submissions in flight settles, processing is false
\* afterwards although the other one is still pending.
C33_FirstToSettleClearsProcessing ==
    [][\A i \in DOMAIN sent :
            (/\ sent[i].status = "pending" /\ sent'[i].status # "pending"
             /\ \E j \in DOMAIN sent \ {i} : sent'[j].status = "pending")
                => ~flags'.processing]_vars
\* C33 witness: the second of two overlapping submissions has ended with
\* validation errors, the first is still in flight and processing is false
C33_Witness ==
    /\ Len(sent) = 2
    /\ ~sent[2].alone
    /\ sent[1].status = "pending" /\ sent[2].status = "errors"
    /\ ~flags.processing

(***************************************************************************)
(* Claims on remembered state                                              *)
(***************************************************************************)
\* C24: useRemember starts from the table's entry for its key when there is
\* one and from the caller's value otherwise; a form made with a remember
\* key has the remembered field values and errors when the table has an
\* entry, and its initial data and no errors otherwise.
C24_SeedsFromTable ==
    [][(lastUse.op = "none" /\ lastUse'.op # "none") =>
        LET key == lastUse'.key
            initial == lastUse'.initial
        IN IF lastUse'.op = "useRemember"
           THEN remembered' = IF key \in DOMAIN cache THEN cache[key] ELSE initial
           ELSE IF key \in DOMAIN cache
                THEN /\ \A field \in DOMAIN cache[key].f.data.f :
                            form'[field] = cache[key].f.data.f[field]
                     /\ flags'.errors = cache[key].f.errors
                ELSE /\ form' = initial.f
                     /\ flags'.errors = Obj(NoFields)]_vars
\* C24 witness: a form made with initial name "a" over a table that holds name
\* "b" and an error for the key has name "b" and that error
C24_Witness ==
    /\ lastUse.op = "useForm"
    /\ lastUse.key \in DOMAIN lastUse.table
    /\ lastUse.initial.f.name = Str("a")
    /\ form.name = Str("b")
    /\ flags.errors = Obj("name" :> Str("taken"))

\* C25: once useRemember has returned, the table's entry for the key equals
\* the state of the proxy after every assignment made through it.
C25_TableFollowsProxy ==
    lastUse.op = "useRemember" =>
        /\ lastUse.key \in DOMAIN cache
        /\ cache[lastUse.key] = remembered
(***************************************************************************)
(* Properties of polling                                                   *)
(***************************************************************************)
\* A step that runs the interval's callback, and one that issues a reload
IsPollTick == pollLog'.ticks = pollLog.ticks + 1
PollReloads == pollLog'.issued = pollLog.issued + 1
\* The poll has been started and not stopped since
PollRunning == poll.listening /\ intervals # {}

\* C26: while a poll is running, a tick issues a reload whenever keepAlive is
\* set or the document is visible; with the document hidden and keepAlive not
\* set, a tick that issues a reload comes after at least Throttle - 1 ticks
\* that issued none, a tick after Throttle ticks without a reload or a
\* visibility change issues one, and every visibility change sets the count
\* of skipped ticks to zero.
C26_PollThrottle ==
    [][PollRunning =>
        /\ (IsPollTick /\ (poll.keepAlive \/ ~hidden)) => PollReloads
        /\ (IsPollTick /\ ~poll.keepAlive /\ hidden /\ PollReloads /\ pollLog.issued > 0)
                => pollLog.quiet >= Throttle - 1
        /\ (IsPollTick /\ ~poll.keepAlive /\ hidden /\ pollLog.calm >= Throttle)
                => PollReloads
        /\ (hidden' # hidden) => poll'.count = 0]_vars

\* C27: at any time at most one reload issued by the poll is in flight and
\* not aborted, and after stop() none is.
C27_PollsDoNotPileUp ==
    /\ Cardinality(inflight) <= 1
    /\ pollLog.stopped => inflight = {}

(***************************************************************************)
(* Properties of loading on visibility                                     *)
(***************************************************************************)
\* C28: at most one reload issued for the element becoming visible is in
\* flight at any time.
C28_OneVisibleLoadInFlight == Cardinality(loading) <= 1

(***************************************************************************)
(* Properties of nested evaluation                                         *)
(***************************************************************************)
\* C29: every read a computation made during its last run registered it as
\* a dependent of the signal read, also when a nested computation ran inside
\* that run; it is a dependent of no signal it did not read; and between
\* evaluations no computation is the observer, so a read registers nothing.
C29_ReadsAttributeToTheReader ==
    /\ \A e \in created : live[e] => \A s \in reads[e] : e \in Range(subs[s])
    /\ \A e \in created, s \in Signals : e \in Range(subs[s]) => s \in reads[e]
    /\ observer = NoObserver

\* C35: once the disposer subscribe returned has been called, the callback
\* is never invoked again and the computation is never registered with a
\* signal again, also when the disposer is called by another subscriber
\* during a propagation pass whose list still holds the disposed
\* computation.  Every invocation is made by notify, which suspends one
\* dispose() first: no such call follows a call of the disposer, neither
\* among the suspended calls nor in a later step.
DisposedThenNotified(e) ==
    \E i, j \in DOMAIN microtasks :
        /\ i < j
        /\ microtasks[i].e = e /\ microtasks[i].by = "disposer"
        /\ microtasks[j].e = e /\ microtasks[j].by = "notify"
C35_DisposedNeverRunsAgain ==
    [][\A e \in created :
        /\ ~DisposedThenNotified(e)'
        /\ ~live[e] => /\ runs'[e] = runs[e]
                       /\ \A s \in Signals : e \notin Range(subs'[s])]_vars

(***************************************************************************)
(* Properties of the history writes                                        *)
(***************************************************************************)
\* The promise of the call whose response was the n-th handed to
\* resolveResponse has settled once the handler has returned
PromiseSettled(n) == n <= navs

\* C30: no history write of a response is still to be made once the promise
\* of its call has settled, and the writes of two responses are not
\* interleaved: every write of the earlier one precedes every write of the
\* later one.
C30_HistoryWritesWithinTheHandler ==
    /\ \A i \in DOMAIN jobs : ~PromiseSettled(jobs[i].nav)
    /\ \A i, j \in DOMAIN writes : i < j => writes[i].nav <= writes[j].nav

(***************************************************************************)
(* Properties of nested assignments                                        *)
(***************************************************************************)
\* C31: every assignment through the state useRemember returned that changes
\* a value, at any depth, runs the subscribers of the owning signal.
C31_EveryAssignmentNotifies ==
    [][(lastUse.op = "useRemember" /\ remembered' # remembered) => lastUse'.notified]_vars

(***************************************************************************)
(* Properties of deferred props                                            *)
(***************************************************************************)
\* A step that answers a follow-up reload
IsFollowUpStep ==
    /\ navs' = navs + 1
    /\ lastNav'.marker
    /\ NonEmptyList(lastNav'.config.only)
    /\ lastNav'.config.except = Undefined

\* C32: when a page with deferredProps is put into the page store, one
\* reload per group has been issued that asks only for the group's props and
\* preserves history and scroll; the answer to a follow-up adds the values
\* delivered for its group to the props the page store holds, leaves every
\* other prop, the page's URL, the history and the scroll position as they
\* were and queues no history write.
C32_DeferredPropsArrive ==
    [][/\ \A g \in DOMAIN Fields(PropOf(val'["page"], "deferredProps")) :
            [only |-> PropOf(val'["page"], "deferredProps").f[g],
             preserveHistory |-> TRUE, preserveScroll |-> TRUE] \in reloads'
       /\ IsFollowUpStep =>
            LET before == Fields(PropOf(val["page"], "props"))
                after == Fields(PropOf(val'["page"], "props"))
                given == Fields(PropOf(lastNav'.incoming, "props"))
            IN /\ \A prop \in DOMAIN given : prop \in DOMAIN after /\ after[prop] = given[prop]
               /\ \A prop \in DOMAIN before \ DOMAIN given :
                        prop \in DOMAIN after /\ after[prop] = before[prop]
               /\ PropOf(val'["page"], "url") = PropOf(val["page"], "url")
               /\ history' = history /\ hidx' = hidx /\ writes' = writes /\ jobs' = jobs
               /\ scrollTop' = scrollTop
      ]_vars

\* C32 witness: both follow-ups of the initial page were answered, the second
\* group first, and the page store holds the first props and both groups at
\* the initial URL with the one history entry
C32_Witness ==
    /\ navs = 2
    /\ lastNav.config.only = Names(<<"c">>)
    /\ DOMAIN Fields(PropOf(val["page"], "props")) = {"list", "c", "d", "e"}
    /\ PropOf(val["page"], "url") = Str("/x")
    /\ Len(history) = 1 /\ writes = <<>>

\* C37: once the history writes of the reconciled responses that did not
\* preserve history have completed, the URL of the current history entry is
\* the url of the page the page store holds, for a push and for a replace,
\* with the remember table empty or not.
C37_UrlFollowsThePageStore ==
    [][(jobs # <<>> /\ jobs' = <<>>) =>
            history'[hidx'].url = PropOf(val'["page"], "url").p]_vars

\* C38: on a push navigation the remember table is saved into the outgoing
\* history entry together with the outgoing page, and the table is empty
\* when the page store's subscribers are notified of the new page, so that
\* state created for the new page under a key of the previous page starts
\* from its own initial value.
C38_TableEmptyForTheNewPage ==
    [][/\ (IsReconcileStep /\ lastNav'.replace = "push" /\ last'.ran # <<>>) =>
            /\ cache' = NoFields
            /\ \A key \in DOMAIN cache : Seed(cache', key, Undefined) = Undefined
       /\ (/\ Len(jobs) = 1 /\ jobs[1].stage = "save" /\ ~jobs[1].replace
           /\ jobs[1].nav = navs /\ jobs' = <<>>) =>
            /\ history'[hidx].state = [page |-> lastNav.old, remember |-> cache]
            /\ history'[hidx].url = history[hidx].url
            /\ hidx' = hidx + 1
            /\ cache' = NoFields
      ]_vars

\* C39: after stop() has returned no interval of the poll is set, no poll
\* tick fires and the poll issues no reload, until start() is called again,
\* whatever calls of start() and stop() came before.
C39_StopEndsThePoll ==
    [][pollLog.stopped =>
        /\ intervals = {}
        /\ pollLog'.stopped =>
              /\ pollLog'.ticks = pollLog.ticks
              /\ pollLog'.issued = pollLog.issued]_vars

\* The popstate handler can decode the entry under the key and IV that
\* sessionStorage holds, or renews
CanDecode(entry, held, gen) ==
    ~Caught(decrypt(entry.state, [storage |-> held, keyGen |-> gen]))
\* The step removes the key and IV held, whether or not it stores new ones:
\* a page with clearHistory was left, or sessionStorage was cleared from
\* outside
KeysCleared ==
    /\ SessionKeys \subseteq storage
    /\ ~(SessionKeys \subseteq storage') \/ keyGen' # keyGen

\* C40: an entry written for a page with encryptHistory can be decoded by a
\* later popstate under the key and IV then held, and stays so until a page
\* with clearHistory is reconciled or sessionStorage is cleared from outside;
\* so the entry written by the navigation that leaves a clearHistory page
\* can be decoded once it is written.
C40_EncryptedEntriesStayDecodable ==
    [][\A i \in DOMAIN history' :
        IsArrayBuffer(history'[i].state) =>
            \/ CanDecode(history'[i], storage', keyGen')
            \/ /\ i \in DOMAIN history
               /\ history'[i] = history[i]
               /\ ~CanDecode(history[i], storage, keyGen) \/ KeysCleared]_vars

====
